---- MODULE Spec2Model ----
(***************************************************************************)
(* Model of the zorya schema registry and schema builder                   *)
(* (openapi_registry.go, openapi_schema.go, openapi_request.go,            *)
(* openapi_response.go).                                                   *)
(*                                                                         *)
(* Go values are represented as follows.                                   *)
(*   - a pointer that may be nil (a Schema, bool or float64 pointer) is an  *)
(*     option: None is nil, Some(v) points at v;                           *)
(*   - a Go string that the code takes apart (type names, hints, schema    *)
(*     names, refs) is a sequence of characters; a string the code only    *)
(*     copies or compares is a TLA+ string;                                *)
(*   - a reflect.Type is a type identifier, described by the operators     *)
(*     Kind, Elem, Name, Fields and Implements.                            *)
(***************************************************************************)
EXTENDS Integers, Sequences, FiniteSets, TLC

VARIABLES reg, dynFields, last, halted, calls, xform, parse, web, oper, cond, tables, conc

vars == <<reg, dynFields, last, halted, calls, xform, parse, web, oper, cond, tables, conc>>

---------------------------------------------------------------------------
(* Options: nil-able pointers *)

None == <<>>

Some(v) == <<v>>

IsSome(o) == o # <<>>

Get(o) == o[1]

RangeOf(s) == {s[i] : i \in 1..Len(s)}

---------------------------------------------------------------------------
(* Strings as character sequences, and the default schema namer *)

RuneError == "\\uFFFD"

LowerCase ==
  <<"a", "b", "c", "d", "e", "f", "g", "h", "i", "j", "k", "l", "m",
    "n", "o", "p", "q", "r", "s", "t", "u", "v", "w", "x", "y", "z">>

UpperCase ==
  <<"A", "B", "C", "D", "E", "F", "G", "H", "I", "J", "K", "L", "M",
    "N", "O", "P", "Q", "R", "S", "T", "U", "V", "W", "X", "Y", "Z">>

\* strings.ToUpper of a one-rune string
ToUpper(c) ==
  IF \E i \in 1..26 : LowerCase[i] = c
  THEN UpperCase[CHOOSE i \in 1..26 : LowerCase[i] = c]
  ELSE c

\* strings.ReplaceAll(name, "[]", "List[")
RECURSIVE ReplaceList(_)
ReplaceList(s) ==
  IF Len(s) = 0 THEN <<>>
  ELSE IF Len(s) >= 2 /\ s[1] = "[" /\ s[2] = "]"
       THEN <<"L", "i", "s", "t", "[">> \o ReplaceList(SubSeq(s, 3, Len(s)))
       ELSE <<s[1]>> \o ReplaceList(Tail(s))

IsSplitRune(c) == c \in {"[", "]", "*", ","}

\* strings.FieldsFunc(name, IsSplitRune): the maximal runs of non-split runes
RECURSIVE FieldsFrom(_, _)
FieldsFrom(s, cur) ==
  IF Len(s) = 0 THEN (IF Len(cur) = 0 THEN <<>> ELSE <<cur>>)
  ELSE IF IsSplitRune(s[1])
       THEN (IF Len(cur) = 0 THEN <<>> ELSE <<cur>>) \o FieldsFrom(Tail(s), <<>>)
       ELSE FieldsFrom(Tail(s), Append(cur, s[1]))

\* fqn := strings.Split(part, "."); base := fqn[len(fqn)-1]
RECURSIVE BaseName(_, _)
BaseName(s, cur) ==
  IF Len(s) = 0 THEN cur
  ELSE IF s[1] = "." THEN BaseName(Tail(s), <<>>)
       ELSE BaseName(Tail(s), Append(cur, s[1]))

\* r, size := utf8.DecodeRuneInString(base); strings.ToUpper(string(r)) + base[size:]
UpperFirst(base) ==
  IF Len(base) = 0 THEN <<RuneError>>
  ELSE <<ToUpper(base[1])>> \o Tail(base)

RECURSIVE JoinParts(_)
JoinParts(parts) ==
  IF Len(parts) = 0 THEN <<>>
  ELSE UpperFirst(BaseName(parts[1], <<>>)) \o JoinParts(Tail(parts))

---------------------------------------------------------------------------
(* Metadata records produced by the annotation parsers *)

\* metadata.OpenAPIMetadata{}
ZeroOpenAPIMetadata ==
  [readOnly |-> None, writeOnly |-> None, deprecated |-> None, hidden |-> None,
   title |-> "", description |-> "", format |-> "", examples |-> <<>>,
   extensions |-> None]

\* metadata.ValidateMetadata{}
ZeroValidateMetadata ==
  [minimum |-> None, exclusiveMinimum |-> None, maximum |-> None,
   exclusiveMaximum |-> None, multipleOf |-> None, pattern |-> "",
   format |-> "", enum |-> <<>>, required |-> None]

\* A schema.FieldMetadata with its per-tag records; a tag that is absent from
\* the field has no record (GetTagMetadata returns ok = false).
Field(structFieldName, paramName, type) ==
  [structFieldName |-> structFieldName, type |-> type,
   schema |-> Some([paramName |-> paramName, required |-> FALSE]),
   openapi |-> None, validate |-> None, default |-> None,
   dependentRequired |-> None]

SchemaRequired(f) ==
  [f EXCEPT !.schema = Some([Get(f.schema) EXCEPT !.required = TRUE])]

WithOpenAPI(f, om) == [f EXCEPT !.openapi = Some(om)]

WithValidate(f, vm) == [f EXCEPT !.validate = Some(vm)]

WithDefault(f, v) == [f EXCEPT !.default = Some([value |-> v])]

WithDependents(f, deps) == [f EXCEPT !.dependentRequired = Some([dependents |-> deps])]

---------------------------------------------------------------------------
(* The types of the program under generation *)

SchemaProvider == "SchemaProvider"

TextUnmarshaler == "TextUnmarshaler"

SchemaTransformer == "SchemaTransformer"

TypeDesc(kind, name, elem) ==
  [kind |-> kind, name |-> name, elem |-> elem, len |-> 0, fields |-> <<>>,
   impl |-> {}, metaErr |-> FALSE, structOpts |-> None]

StructDesc(name, fields) ==
  [TypeDesc("struct", name, "") EXCEPT !.fields = fields]

timeType == "time.Time"

urlType == "url.URL"

ipType == "net.IP"

ipAddrType == "netip.Addr"

\* Declared types.  Loop is declared as "type Loop []Loop" and Dict as
\* "type Dict map[string]Dict".  Two packages declare a struct named Foo; Anon is an
\* unnamed struct type; Node and Tree are the recursive types of
\* TestRegistry_RecursiveTypes; Upload is a multipart body with file parts;
\* Money, Stamp, Both, Empty and Tagged implement the override interfaces.
StaticTypes ==
  [t \in {"int", "uint8", "string", "*int", "[]uint8", "*[]uint8", "[]string",
          "[][]uint8", "func()", "[]func()", "bool", "any", "map[string]int", "[2]int",
          timeType, urlType, "a.Foo", "b.Foo", "*a.Foo", "Anon", "Node",
          "*Node", "Tree", "Upload", "Wrapper", "Money", "Stamp", "*Stamp",
          "Both", "Empty", "Tagged", "TaggedStamp", "Legacy", "*Legacy",
          "BadMeta", "Dyn", "ErrorModel", "ErrorDetail", "*ErrorDetail",
          "[]*ErrorDetail", "Loop", "Dict", "float64", "*string"} |->
    CASE t = "int" -> TypeDesc("int", <<"i", "n", "t">>, "")
      [] t = "uint8" -> TypeDesc("uint8", <<"u", "i", "n", "t", "8">>, "")
      [] t = "string" -> TypeDesc("string", <<"s", "t", "r", "i", "n", "g">>, "")
      [] t = "*int" -> TypeDesc("ptr", <<>>, "int")
      [] t = "[]uint8" -> TypeDesc("slice", <<>>, "uint8")
      [] t = "*[]uint8" -> TypeDesc("ptr", <<>>, "[]uint8")
      [] t = "[]string" -> TypeDesc("slice", <<>>, "string")
      [] t = "[][]uint8" -> TypeDesc("slice", <<>>, "[]uint8")
      [] t = "func()" -> TypeDesc("func", <<>>, "")
      [] t = "[]func()" -> TypeDesc("slice", <<>>, "func()")
      [] t = "bool" -> TypeDesc("bool", <<"b", "o", "o", "l">>, "")
      [] t = "any" -> TypeDesc("interface", <<>>, "")
      [] t = "map[string]int" -> TypeDesc("map", <<>>, "int")
      [] t = "[2]int" -> [TypeDesc("array", <<>>, "int") EXCEPT !.len = 2]
      [] t = timeType ->
           [StructDesc(<<"T", "i", "m", "e">>, <<>>) EXCEPT !.impl = {TextUnmarshaler}]
      [] t = urlType -> StructDesc(<<"U", "R", "L">>, <<>>)
      [] t = "a.Foo" ->
           StructDesc(<<"F", "o", "o">>,
                      <<SchemaRequired(Field(<<"I", "D">>, <<"i", "d">>, "int"))>>)
      [] t = "b.Foo" ->
           StructDesc(<<"F", "o", "o">>, <<Field(<<"N">>, <<"n", "a", "m", "e">>, "string")>>)
      [] t = "*a.Foo" -> TypeDesc("ptr", <<>>, "a.Foo")
      [] t = "Anon" -> StructDesc(<<>>, <<Field(<<"X">>, <<"x">>, "string")>>)
      [] t = "Node" ->
           StructDesc(<<"N", "o", "d", "e">>, <<Field(<<"N", "e", "x", "t">>, <<"n", "e", "x", "t">>, "*Node")>>)
      [] t = "*Node" -> TypeDesc("ptr", <<>>, "Node")
      [] t = "Tree" ->
           StructDesc(<<"T", "r", "e", "e">>,
                      <<SchemaRequired(Field(<<"R", "o", "o", "t">>, <<"r", "o", "o", "t">>, "*Node"))>>)
      [] t = "Upload" ->
           StructDesc(<<"U", "p">>,
                      <<Field(<<"F">>, <<"f", "i", "l", "e">>, "[]uint8"),
                        WithOpenAPI(Field(<<"D">>, <<"d", "o", "c">>, "[]uint8"),
                                    [ZeroOpenAPIMetadata EXCEPT !.format = "pdf"]),
                        Field(<<"F", "s">>, <<"f", "i", "l", "e", "s">>, "[][]uint8"),
                        Field(<<"N">>, <<"n", "a", "m", "e">>, "string"),
                        Field(<<"M">>, <<"m", "e", "t", "a">>, "Anon")>>)
      [] t = "Wrapper" ->
           StructDesc(<<"W">>, <<Field(<<"U">>, <<"u", "p", "l", "o", "a", "d">>, "Upload")>>)
      [] t = "Money" ->
           [TypeDesc("string", <<"M", "o", "n", "e", "y">>, "") EXCEPT !.impl = {SchemaProvider}]
      [] t = "Stamp" ->
           [StructDesc(<<"S", "t", "a", "m", "p">>, <<Field(<<"S">>, <<"s", "e", "c">>, "int")>>)
              EXCEPT !.impl = {TextUnmarshaler}]
      [] t = "*Stamp" -> TypeDesc("ptr", <<>>, "Stamp")
      [] t = "Both" ->
           [StructDesc(<<"B", "o", "t", "h">>, <<Field(<<"V">>, <<"v">>, "int")>>)
              EXCEPT !.impl = {SchemaProvider, TextUnmarshaler}]
      [] t = "Empty" ->
           [StructDesc(<<"E", "m", "p", "t", "y">>, <<Field(<<"V">>, <<"v">>, "int")>>)
              EXCEPT !.impl = {SchemaProvider, TextUnmarshaler}]
      [] t = "Tagged" ->
           [StructDesc(<<"T", "a", "g">>, <<Field(<<"V">>, <<"v">>, "string")>>)
              EXCEPT !.impl = {SchemaTransformer}]
      [] t = "TaggedStamp" ->
           [TypeDesc("int", <<"T", "s">>, "")
              EXCEPT !.impl = {TextUnmarshaler, SchemaTransformer}]
      [] t = "Legacy" -> StructDesc(<<"L", "e", "g">>, <<Field(<<"O">>, <<"o", "l", "d">>, "int")>>)
      [] t = "*Legacy" -> TypeDesc("ptr", <<>>, "Legacy")
      [] t = "BadMeta" ->
           [StructDesc(<<"B", "a", "d">>, <<>>) EXCEPT !.metaErr = TRUE]
      [] t = "Dyn" -> StructDesc(<<"D", "y", "n">>, <<>>)
      [] t = "ErrorModel" ->
           StructDesc(<<"E", "r", "r", "o", "r", "M", "o", "d", "e", "l">>,
                      <<Field(<<"T", "y", "p", "e">>, <<"t", "y", "p", "e">>, "string"),
                        Field(<<"T", "i", "t", "l", "e">>, <<"t", "i", "t", "l", "e">>, "string"),
                        Field(<<"S", "t", "a", "t", "u", "s">>, <<"s", "t", "a", "t", "u", "s">>, "int"),
                        Field(<<"D", "e", "t", "a", "i", "l">>, <<"d", "e", "t", "a", "i", "l">>, "string"),
                        Field(<<"I", "n", "s", "t", "a", "n", "c", "e">>,
                              <<"i", "n", "s", "t", "a", "n", "c", "e">>, "string"),
                        Field(<<"E", "r", "r", "o", "r", "s">>, <<"e", "r", "r", "o", "r", "s">>,
                              "[]*ErrorDetail")>>)
      [] t = "ErrorDetail" ->
           StructDesc(<<"E", "r", "r", "o", "r", "D", "e", "t", "a", "i", "l">>,
                      <<Field(<<"C", "o", "d", "e">>, <<"c", "o", "d", "e">>, "string"),
                        Field(<<"M", "e", "s", "s", "a", "g", "e">>,
                              <<"m", "e", "s", "s", "a", "g", "e">>, "string"),
                        Field(<<"L", "o", "c", "a", "t", "i", "o", "n">>,
                              <<"l", "o", "c", "a", "t", "i", "o", "n">>, "string")>>)
      [] t = "*ErrorDetail" -> TypeDesc("ptr", <<>>, "ErrorDetail")
      [] t = "[]*ErrorDetail" -> TypeDesc("slice", <<>>, "*ErrorDetail")
      [] t = "Loop" -> TypeDesc("slice", <<"L", "o", "o", "p">>, "Loop")
      [] t = "Dict" -> TypeDesc("map", <<"D", "i", "c", "t">>, "Dict")
      [] t = "float64" -> TypeDesc("float64", <<"f", "l", "o", "a", "t", "6", "4">>, "")
      [] t = "*string" -> TypeDesc("ptr", <<>>, "string")]

Types == DOMAIN StaticTypes

\* The fields of Dyn are the declaration under test, fixed before generation.
TypeOf(t) ==
  IF t = "Dyn" THEN [StaticTypes[t] EXCEPT !.fields = dynFields] ELSE StaticTypes[t]

Kind(t) == StaticTypes[t].kind

Name(t) == StaticTypes[t].name

Elem(t) == StaticTypes[t].elem

Implements(t, iface) == iface \in StaticTypes[t].impl

RECURSIVE deref(_)
deref(t) == IF Kind(t) = "ptr" THEN deref(Elem(t)) ELSE t

DefaultSchemaNamer(t, hint) ==
  LET name0 == Name(deref(t))
      name1 == IF name0 = <<>> THEN hint ELSE name0
  IN  JoinParts(FieldsFrom(ReplaceList(name1), <<>>))

---------------------------------------------------------------------------
(* Schema values *)

TypeBoolean == "boolean"

TypeInteger == "integer"

TypeNumber == "number"

TypeString == "string"

TypeArray == "array"

TypeObject == "object"

formatInt32 == "int32"

formatInt64 == "int64"

formatBinary == "binary"

contentEncodingBase64 == "base64"

\* Schema{}
ZeroSchema ==
  [type |-> "", nullable |-> None, format |-> "", contentEncoding |-> "",
   contentMediaType |-> "", ref |-> <<>>, items |-> None,
   additionalProperties |-> None, properties |-> None, propertyNames |-> <<>>,
   required |-> <<>>, requiredMap |-> {}, dependentRequired |-> None,
   minimum |-> None, maximum |-> None, exclusiveMinimum |-> None,
   exclusiveMaximum |-> None, multipleOf |-> None, minLength |-> None,
   maxLength |-> None, minItems |-> None, maxItems |-> None,
   minProperties |-> None, maxProperties |-> None, pattern |-> "",
   enum |-> <<>>, const |-> None, default |-> None, title |-> "",
   description |-> "", examples |-> <<>>, readOnly |-> None,
   writeOnly |-> None, deprecated |-> None, hidden |-> FALSE,
   extensions |-> None]

\* The registry prefix handed to NewMapRegistry.
Prefix == <<"#/components/schemas/">>

\* &Schema{Ref: r.prefix + name}
RefSchema(name) == [ZeroSchema EXCEPT !.ref = Prefix \o name]

\* The word size of the platform (math/bits.UintSize).
UintSize == 64

minZero == 0

lookUpByType ==
  [t \in {timeType, urlType, ipType, ipAddrType} |->
    CASE t = timeType -> [ZeroSchema EXCEPT !.type = TypeString, !.format = "date-time"]
      [] t = urlType -> [ZeroSchema EXCEPT !.type = TypeString, !.format = "uri"]
      [] t = ipType -> [ZeroSchema EXCEPT !.type = TypeString, !.format = "ipv4"]
      [] t = ipAddrType -> [ZeroSchema EXCEPT !.type = TypeString, !.format = "ipv4"]]

lookUpByKind ==
  [k \in {"bool", "int8", "int16", "int32", "int64", "uint8", "uint16",
          "uint32", "uint64", "float32", "float64", "string"} |->
    CASE k = "bool" -> [ZeroSchema EXCEPT !.type = TypeBoolean]
      [] k \in {"int8", "int16", "int32"} ->
           [ZeroSchema EXCEPT !.type = TypeInteger, !.format = formatInt32]
      [] k = "int64" -> [ZeroSchema EXCEPT !.type = TypeInteger, !.format = formatInt64]
      [] k \in {"uint8", "uint16", "uint32"} ->
           [ZeroSchema EXCEPT !.type = TypeInteger, !.format = formatInt32,
                              !.minimum = Some(minZero)]
      [] k = "uint64" ->
           [ZeroSchema EXCEPT !.type = TypeInteger, !.format = formatInt64,
                              !.minimum = Some(minZero)]
      [] k = "float32" -> [ZeroSchema EXCEPT !.type = TypeNumber, !.format = "float"]
      [] k = "float64" -> [ZeroSchema EXCEPT !.type = TypeNumber, !.format = "double"]
      [] k = "string" -> [ZeroSchema EXCEPT !.type = TypeString]]

applyNullableForScalar(s, isPointer) ==
  IF s.type \in {TypeBoolean, TypeInteger, TypeNumber, TypeString}
  THEN [s EXCEPT !.nullable = Some(isPointer)]
  ELSE s

\* Returns None when neither table has an entry.
schemaForSimpleType(t, isPointer) ==
  IF t \in DOMAIN lookUpByType
  THEN Some(applyNullableForScalar(lookUpByType[t], isPointer))
  ELSE IF Kind(t) \in {"int", "uint"}
  THEN LET s1 == [ZeroSchema EXCEPT !.type = TypeInteger,
                     !.format = IF UintSize = 32 THEN formatInt32 ELSE formatInt64]
           s2 == IF Kind(t) = "uint" THEN [s1 EXCEPT !.minimum = Some(minZero)] ELSE s1
       IN  Some(applyNullableForScalar(s2, isPointer))
  ELSE IF Kind(t) \in DOMAIN lookUpByKind
  THEN Some(applyNullableForScalar(lookUpByKind[Kind(t)], isPointer))
  ELSE None

\* The schema a SchemaProvider type returns from its Schema method (user code):
\* Money and Both describe themselves, Empty returns nil.
ProviderSchema(t) ==
  CASE t = "Money" ->
         Some([ZeroSchema EXCEPT !.type = TypeString, !.format = "money",
                                 !.nullable = Some(TRUE)])
    [] t = "Both" -> Some([ZeroSchema EXCEPT !.type = TypeNumber, !.title = "both"])
    [] OTHER -> None

\* The TransformSchema method of a SchemaTransformer type (user code): it tags
\* the schema it is handed and passes nil through.
TransformSchema(t, s) ==
  IF IsSome(s) THEN Some([Get(s) EXCEPT !.description = "transformed"]) ELSE None

\* Returns the schema pointer of the Go function: None is its (nil, nil) result,
\* also when a SchemaProvider's Schema method itself returns nil.
schemaFromInterface(t, isPointer) ==
  IF Implements(t, SchemaProvider)
  THEN ProviderSchema(t)
  ELSE IF Implements(t, TextUnmarshaler)
  THEN Some([ZeroSchema EXCEPT !.type = TypeString, !.nullable = Some(isPointer)])
  ELSE None

---------------------------------------------------------------------------
(* Field-metadata merge policy *)

\* A float64 is held as a whole number of halves, so that the int(...)
\* conversions of the merge truncate as they do in Go.
Float(n) == 2 * n

\* int(f) for a float64 f: truncation toward zero
IntOfFloat(h) == IF h >= 0 THEN h \div 2 ELSE -((-h) \div 2)

extractFieldName(fieldMeta) ==
  IF IsSome(fieldMeta.schema) THEN Get(fieldMeta.schema).paramName
  ELSE fieldMeta.structFieldName

\* A priority order in which the schema annotation is asked before hidden.
determineRequired_SchemaFirst(fieldMeta) ==
  IF IsSome(fieldMeta.schema) /\ Get(fieldMeta.schema).required
  THEN TRUE
  ELSE IF IsSome(fieldMeta.openapi) /\ Get(fieldMeta.openapi).hidden = Some(TRUE)
  THEN FALSE
  ELSE IF IsSome(fieldMeta.validate) /\ Get(fieldMeta.validate).required = Some(TRUE)
  THEN TRUE
  ELSE FALSE

determineRequired(fieldMeta) ==
  IF IsSome(fieldMeta.openapi) /\ Get(fieldMeta.openapi).hidden = Some(TRUE)
  THEN FALSE
  ELSE IF IsSome(fieldMeta.schema) /\ Get(fieldMeta.schema).required
  THEN TRUE
  ELSE IF IsSome(fieldMeta.validate) /\ Get(fieldMeta.validate).required = Some(TRUE)
  THEN TRUE
  ELSE FALSE

applyOpenAPIMetadata(fs, fieldMeta) ==
  IF ~IsSome(fieldMeta.openapi) THEN fs
  ELSE LET om == Get(fieldMeta.openapi)
       IN  [fs EXCEPT !.title = om.title,
                      !.description = om.description,
                      !.format = om.format,
                      !.examples = om.examples,
                      !.readOnly = om.readOnly,
                      !.writeOnly = om.writeOnly,
                      !.deprecated = om.deprecated,
                      !.hidden = IF IsSome(om.hidden) THEN Get(om.hidden) ELSE fs.hidden,
                      !.extensions = om.extensions]

applyStringMinMax(fs, vm) ==
  [fs EXCEPT
     !.minLength = IF IsSome(vm.minimum) THEN Some(IntOfFloat(Get(vm.minimum))) ELSE @,
     !.maxLength = IF IsSome(vm.maximum) THEN Some(IntOfFloat(Get(vm.maximum))) ELSE @]

applyNumericMinMax(fs, vm) ==
  [fs EXCEPT !.minimum = vm.minimum, !.maximum = vm.maximum]

applyArrayMinMax(fs, vm) ==
  [fs EXCEPT
     !.minItems = IF IsSome(vm.minimum) THEN Some(IntOfFloat(Get(vm.minimum))) ELSE @,
     !.maxItems = IF IsSome(vm.maximum) THEN Some(IntOfFloat(Get(vm.maximum))) ELSE @]

applyObjectMinMax(fs, vm) ==
  [fs EXCEPT
     !.minProperties = IF IsSome(vm.minimum) THEN Some(IntOfFloat(Get(vm.minimum))) ELSE @,
     !.maxProperties = IF IsSome(vm.maximum) THEN Some(IntOfFloat(Get(vm.maximum))) ELSE @]

\* A switch whose default case applies the numeric bounds.
applyMinMaxConstraints_NumericDefault(fs, vm) ==
  CASE fs.type = TypeString -> applyStringMinMax(fs, vm)
    [] fs.type = TypeArray -> applyArrayMinMax(fs, vm)
    [] fs.type = TypeObject -> applyObjectMinMax(fs, vm)
    [] OTHER -> applyNumericMinMax(fs, vm)

applyMinMaxConstraints(fs, vm) ==
  CASE fs.type = TypeString -> applyStringMinMax(fs, vm)
    [] fs.type \in {TypeInteger, TypeNumber} -> applyNumericMinMax(fs, vm)
    [] fs.type = TypeArray -> applyArrayMinMax(fs, vm)
    [] fs.type = TypeObject -> applyObjectMinMax(fs, vm)
    [] OTHER -> fs

\* An enumeration always written as enum.
applyEnumTo_AlwaysEnum(target, vm) == [target EXCEPT !.enum = vm.enum]

\* The target of the enumeration is the items schema of an array, else the
\* field schema itself.
applyEnumTo(target, vm) ==
  IF Len(vm.enum) = 1
  THEN [target EXCEPT !.const = Some(vm.enum[1])]
  ELSE [target EXCEPT !.enum = vm.enum]

applyEnumConstraints(fs, vm) ==
  IF fs.type = TypeArray /\ IsSome(fs.items)
  THEN [fs EXCEPT !.items = Some(applyEnumTo(Get(fs.items), vm))]
  ELSE applyEnumTo(fs, vm)

\* A merge in which the validate format is always written.
applyValidateMetadata_FormatAlways(fs, fieldMeta) ==
  IF ~IsSome(fieldMeta.validate) THEN fs
  ELSE LET vm == Get(fieldMeta.validate)
           fs1 == applyMinMaxConstraints(fs, vm)
           fs2 == [fs1 EXCEPT !.exclusiveMinimum = vm.exclusiveMinimum,
                              !.exclusiveMaximum = vm.exclusiveMaximum,
                              !.multipleOf = vm.multipleOf,
                              !.pattern = vm.pattern,
                              !.format = vm.format]
       IN  applyEnumConstraints(fs2, vm)

applyValidateMetadata(fs, fieldMeta) ==
  IF ~IsSome(fieldMeta.validate) THEN fs
  ELSE LET vm == Get(fieldMeta.validate)
           fs1 == applyMinMaxConstraints(fs, vm)
           fs2 == [fs1 EXCEPT !.exclusiveMinimum = vm.exclusiveMinimum,
                              !.exclusiveMaximum = vm.exclusiveMaximum,
                              !.multipleOf = vm.multipleOf,
                              !.pattern = vm.pattern,
                              !.format = IF fs1.format = "" THEN vm.format ELSE @]
       IN  applyEnumConstraints(fs2, vm)

\* A merge without the nullability correction.
applyRequiredNullable_Skipped(fs, fieldRequired) == fs

\* if fieldRequired && fs.Nullable != nil && *fs.Nullable { fs.Nullable = &falseVal }
applyRequiredNullable(fs, fieldRequired) ==
  IF fieldRequired /\ fs.nullable = Some(TRUE)
  THEN [fs EXCEPT !.nullable = Some(FALSE)]
  ELSE fs

applyDefaultValue(fs, fieldMeta) ==
  IF ~IsSome(fieldMeta.default) \/ ~IsSome(Get(fieldMeta.default).value) THEN fs
  ELSE [fs EXCEPT !.default = Get(fieldMeta.default).value]

\* s is the object schema under construction.
applyDependentRequired(s, fieldMeta, fieldName) ==
  IF ~IsSome(fieldMeta.dependentRequired)
     \/ Len(Get(fieldMeta.dependentRequired).dependents) = 0
  THEN s
  ELSE LET deps == Get(fieldMeta.dependentRequired).dependents
           old == IF IsSome(s.dependentRequired) THEN Get(s.dependentRequired) ELSE <<>>
       IN  [s EXCEPT !.dependentRequired =
              Some([n \in DOMAIN old \cup {fieldName} |->
                     IF n = fieldName THEN deps ELSE old[n]])]

\* A validation that stops at the first missing dependent it finds.
validateDependentRequired_FirstOnly(s, props) ==
  IF ~IsSome(s.dependentRequired) THEN {}
  ELSE LET dr == Get(s.dependentRequired)
           all == {p \in UNION {{<<field, dr[field][i]>> : i \in 1..Len(dr[field])} :
                                  field \in DOMAIN dr} :
                     p[2] \notin DOMAIN props}
       IN  IF all = {} THEN {} ELSE {CHOOSE p \in all : TRUE}

\* The errors collected by validateDependentRequired: one per (field,
\* dependent) pair whose dependent is no key of props.  The Go loop ranges over
\* a map, so the errors are joined in no fixed order: they are held as a set.
validateDependentRequired(s, props) ==
  IF ~IsSome(s.dependentRequired) THEN {}
  ELSE LET dr == Get(s.dependentRequired)
       IN  {p \in UNION {{<<field, dr[field][i]>> : i \in 1..Len(dr[field])} :
                           field \in DOMAIN dr} :
              p[2] \notin DOMAIN props}

---------------------------------------------------------------------------
(* The annotation parsers (package metadata) *)

\* An annotation string is held as the sequence of its comma-separated items,
\* each with the characters of its key and of its value (empty for a flag).
Item(key, value) == [key |-> key, value |-> value]

\* string(cs): the Go string of a character sequence, for the values a parser
\* stores or switches on as they are.
RECURSIVE Text(_)
Text(cs) == IF cs = <<>> THEN "" ELSE cs[1] \o Text(Tail(cs))

RECURSIVE TrimLeft(_)
TrimLeft(cs) == IF cs # <<>> /\ cs[1] = " " THEN TrimLeft(Tail(cs)) ELSE cs

RECURSIVE TrimRight(_)
TrimRight(cs) ==
  IF cs # <<>> /\ cs[Len(cs)] = " " THEN TrimRight(SubSeq(cs, 1, Len(cs) - 1)) ELSE cs

\* strings.TrimSpace
TrimSpace(cs) == TrimRight(TrimLeft(cs))

\* strings.Fields: the maximal runs of non-space characters, in order.
RECURSIVE Fields(_, _)
Fields(cs, word) ==
  IF cs = <<>> THEN (IF word = <<>> THEN <<>> ELSE <<word>>)
  ELSE IF cs[1] = " "
       THEN (IF word = <<>> THEN <<>> ELSE <<word>>) \o Fields(Tail(cs), <<>>)
       ELSE Fields(Tail(cs), Append(word, cs[1]))

\* The outcome of a parser: the metadata record, or an error.
ParseOk(meta) == [ok |-> TRUE, meta |-> Some(meta), err |-> ""]

ParseError(err) == [ok |-> FALSE, meta |-> None, err |-> err]

\* tagparser.Parse in options mode: tag.Options maps the trimmed key of each
\* item to its value; an item whose key is empty or blank is an error.
ParseTag(tag) ==
  IF \E i \in 1..Len(tag) : TrimSpace(tag[i].key) = <<>>
  THEN ParseError("empty key")
  ELSE ParseOk([k \in {TrimSpace(tag[i].key) : i \in 1..Len(tag)} |->
                  LET at == CHOOSE i \in 1..Len(tag) :
                              /\ TrimSpace(tag[i].key) = k
                              /\ \A j \in 1..Len(tag) : TrimSpace(tag[j].key) = k => j <= i
                  IN  tag[at].value])

\* The orders in which a range over a Go map may visit the keys.
Orders(keys) ==
  {o \in [1..Cardinality(keys) -> keys] : \A k \in keys : \E i \in DOMAIN o : o[i] = k}

IsDigit(c) == c \in {"0", "1", "2", "3", "4", "5", "6", "7", "8", "9"}

DigitValue(c) ==
  CASE c = "0" -> 0 [] c = "1" -> 1 [] c = "2" -> 2 [] c = "3" -> 3 [] c = "4" -> 4
    [] c = "5" -> 5 [] c = "6" -> 6 [] c = "7" -> 7 [] c = "8" -> 8 [] c = "9" -> 9

RECURSIVE Decimal(_)
Decimal(cs) ==
  IF cs = <<>> THEN 0
  ELSE 10 * Decimal(SubSeq(cs, 1, Len(cs) - 1)) + DigitValue(cs[Len(cs)])

\* parseFloat64, for the numerals of the model: strings of decimal digits.
\* Any other string of the model is no numeral.
parseFloat64(s) ==
  IF s = <<>> THEN [ok |-> FALSE, f |-> 0]
  ELSE IF \A i \in 1..Len(s) : IsDigit(s[i]) THEN [ok |-> TRUE, f |-> Float(Decimal(s))]
  ELSE [ok |-> FALSE, f |-> 0]

parseBool(value) ==
  IF Text(value) = "" THEN Some(TRUE)
  ELSE IF Text(value) = "true" THEN Some(TRUE)
  ELSE IF Text(value) = "false" THEN Some(FALSE)
  ELSE None

\* The numeric validators: the attributes each one writes.
setNumeric(vm, validator, f) ==
  CASE validator \in {"min", "gte"} -> [vm EXCEPT !.minimum = Some(f)]
    [] validator \in {"max", "lte"} -> [vm EXCEPT !.maximum = Some(f)]
    [] validator = "gt" -> [vm EXCEPT !.exclusiveMinimum = Some(f)]
    [] validator = "lt" -> [vm EXCEPT !.exclusiveMaximum = Some(f)]
    [] validator = "multiple_of" -> [vm EXCEPT !.multipleOf = Some(f)]
    [] validator = "len" -> [vm EXCEPT !.minimum = Some(f), !.maximum = Some(f)]

\* oneof: the space-separated values, in the order written
enumValues(parts) == [i \in 1..Len(parts) |-> Text(parts[i])]

applyValidatorMapping(vm, validator, value) ==
  CASE validator = "required" -> ParseOk([vm EXCEPT !.required = parseBool(value)])
    [] validator \in {"min", "max", "gte", "lte", "gt", "lt", "multiple_of", "len"} ->
         IF parseFloat64(value).ok
         THEN ParseOk(setNumeric(vm, validator, parseFloat64(value).f))
         ELSE ParseError("invalid " \o validator \o " value")
    [] validator = "email" -> ParseOk([vm EXCEPT !.format = "email"])
    [] validator = "url" -> ParseOk([vm EXCEPT !.format = "uri"])
    [] validator = "alpha" -> ParseOk([vm EXCEPT !.pattern = "^[a-zA-Z]+$"])
    [] validator = "alphanum" -> ParseOk([vm EXCEPT !.pattern = "^[a-zA-Z0-9]+$"])
    [] validator = "alphaunicode" -> ParseOk([vm EXCEPT !.pattern = "^[\\p{L}]+$"])
    [] validator = "alphanumunicode" -> ParseOk([vm EXCEPT !.pattern = "^[\\p{L}\\p{N}]+$"])
    [] validator = "pattern" -> ParseOk([vm EXCEPT !.pattern = Text(value)])
    [] validator = "oneof" ->
         IF TrimSpace(value) = <<>>
         THEN ParseError("oneof requires at least one value")
         ELSE ParseOk([vm EXCEPT !.enum = enumValues(Fields(TrimSpace(value), <<>>))])
    [] OTHER -> ParseOk(vm)

\* allValidators: a flag stored under the empty key is entered under its
\* value, every other option under its key.
allValidators(options) ==
  [v \in {IF k = <<>> THEN options[k] ELSE k : k \in DOMAIN options} |->
     IF v \in DOMAIN options THEN options[v] ELSE <<>>]

RECURSIVE applyValidators(_, _, _, _)
applyValidators(r, all, order, i) ==
  IF ~r.ok THEN ParseError("failed to apply validator: " \o r.err)
  ELSE IF i > Len(order) THEN r
  ELSE applyValidators(applyValidatorMapping(Get(r.meta), Text(order[i]), all[order[i]]),
                       all, order, i + 1)

\* ParseValidateTag; order is the order in which the range over allValidators
\* visits the validators.
ParseValidateTag(tag, order) ==
  IF ~ParseTag(tag).ok THEN ParseError("failed to parse validate tag")
  ELSE applyValidators(ParseOk(ZeroValidateMetadata),
                       allValidators(Get(ParseTag(tag).meta)), order, 1)

\* The keys the range of ParseValidateTag visits.
ValidatorKeys(tag) ==
  IF ParseTag(tag).ok THEN DOMAIN allValidators(Get(ParseTag(tag).meta)) ELSE {}

\* The keys of tag.Options, which the other parsers range over.
OptionKeys(tag) == IF ParseTag(tag).ok THEN DOMAIN Get(ParseTag(tag).meta) ELSE {}

\* ParseDependentRequiredTag: the dependents are the keys of tag.Options in
\* the order the range visits them.
ParseDependentRequiredTag(tag, order) ==
  IF ~ParseTag(tag).ok THEN ParseError("failed to parse dependent required tag")
  ELSE ParseOk([dependents |-> order])

\* metadata.OpenAPIStructMetadata{}
ZeroOpenAPIStructMetadata == [additionalProperties |-> None, nullable |-> None]

RECURSIVE applyStructOptions(_, _, _, _)
applyStructOptions(osm, options, order, i) ==
  IF i > Len(order) THEN osm
  ELSE applyStructOptions(
         CASE Text(order[i]) = "additionalProperties" ->
                [osm EXCEPT !.additionalProperties = parseBool(options[order[i]])]
           [] Text(order[i]) = "nullable" ->
                [osm EXCEPT !.nullable = parseBool(options[order[i]])]
           [] OTHER -> osm,
         options, order, i + 1)

ParseOpenAPIStructTag(tag, order) ==
  IF ~ParseTag(tag).ok THEN ParseError("failed to parse openapiStruct tag")
  ELSE ParseOk(applyStructOptions(ZeroOpenAPIStructMetadata, Get(ParseTag(tag).meta), order, 1))

\* A JSON text of the model, as encoding/json decodes it into an any: the
\* literals true, false and null, a numeral, an array of at most one numeral,
\* the empty object, or a quoted string without escapes.  Every other text,
\* the empty one included, is a syntax error.
JSONValue(kind, v) == [ok |-> TRUE, kind |-> kind, v |-> v]

JSONError == [ok |-> FALSE, kind |-> "", v |-> <<>>]

jsonUnmarshal(value) ==
  CASE Text(value) = "true" -> JSONValue("bool", <<TRUE>>)
    [] Text(value) = "false" -> JSONValue("bool", <<FALSE>>)
    [] Text(value) = "null" -> JSONValue("null", <<>>)
    [] Text(value) = "[]" -> JSONValue("array", <<>>)
    [] Text(value) = "{}" -> JSONValue("object", <<>>)
    [] parseFloat64(value).ok -> JSONValue("number", <<parseFloat64(value).f>>)
    [] /\ Len(value) >= 3 /\ value[1] = "[" /\ value[Len(value)] = "]"
       /\ parseFloat64(SubSeq(value, 2, Len(value) - 1)).ok ->
         JSONValue("array", <<parseFloat64(SubSeq(value, 2, Len(value) - 1)).f>>)
    [] /\ Len(value) >= 2 /\ value[1] = "\"" /\ value[Len(value)] = "\""
       /\ \A i \in 2..(Len(value) - 1) : value[i] \notin {"\"", "\\"} ->
         JSONValue("string", <<Text(SubSeq(value, 2, Len(value) - 1))>>)
    [] OTHER -> JSONError

\* strings.HasPrefix(key, "x-") && len(key) > 3
IsExtensionKey(key) == Len(key) > 3 /\ key[1] = "x" /\ key[2] = "-"

\* The parser's progress: the record so far, and whether om.Examples is still
\* nil (an empty list decoded from JSON is not).
OpenAPIParse(om, examplesNil) == [ok |-> TRUE, om |-> om, examplesNil |-> examplesNil, err |-> ""]

OpenAPIFailed(st, err) == [st EXCEPT !.ok = FALSE, !.err = err]

setBoolOption(om, key, b) ==
  CASE key = "readOnly" -> [om EXCEPT !.readOnly = b]
    [] key = "writeOnly" -> [om EXCEPT !.writeOnly = b]
    [] key = "deprecated" -> [om EXCEPT !.deprecated = b]
    [] key = "hidden" -> [om EXCEPT !.hidden = b]

setTextOption(om, key, text) ==
  CASE key = "title" -> [om EXCEPT !.title = text]
    [] key = "description" -> [om EXCEPT !.description = text]
    [] key = "format" -> [om EXCEPT !.format = text]

applyOpenAPIMapping(st, key, value) ==
  IF IsExtensionKey(key)
  THEN [st EXCEPT !.om.extensions =
          Some([k \in (IF IsSome(st.om.extensions) THEN DOMAIN Get(st.om.extensions)
                        ELSE {}) \cup {key} |->
                  IF k = key THEN Text(value) ELSE Get(st.om.extensions)[k]])]
  ELSE CASE Text(key) \in {"readOnly", "writeOnly", "deprecated", "hidden"} ->
              [st EXCEPT !.om = setBoolOption(st.om, Text(key), parseBool(value))]
         [] Text(key) \in {"title", "description", "format"} ->
              [st EXCEPT !.om = setTextOption(st.om, Text(key), Text(value))]
         [] Text(key) = "example" ->
              IF ~st.examplesNil THEN st
              ELSE [st EXCEPT !.examplesNil = FALSE,
                              !.om.examples = IF parseFloat64(value).ok
                                              THEN <<parseFloat64(value).f>>
                                              ELSE <<Text(value)>>]
         [] Text(key) = "examples" ->
              IF jsonUnmarshal(value).ok /\ jsonUnmarshal(value).kind \in {"array", "null"}
              THEN [st EXCEPT !.examplesNil = (jsonUnmarshal(value).kind = "null"),
                              !.om.examples = jsonUnmarshal(value).v]
              ELSE OpenAPIFailed(st, "failed to parse examples JSON")
         [] OTHER -> st

RECURSIVE applyOpenAPIOptions(_, _, _, _)
applyOpenAPIOptions(st, options, order, i) ==
  IF ~st.ok THEN ParseError("failed to apply openapi mapping: " \o st.err)
  ELSE IF i > Len(order) THEN ParseOk(st.om)
  ELSE applyOpenAPIOptions(applyOpenAPIMapping(st, order[i], options[order[i]]),
                           options, order, i + 1)

ParseOpenAPITag(tag, order) ==
  IF ~ParseTag(tag).ok THEN ParseError("failed to parse openapi tag")
  ELSE applyOpenAPIOptions(OpenAPIParse(ZeroOpenAPIMetadata, TRUE),
                           Get(ParseTag(tag).meta), order, 1)

\* metadata.DefaultMetadata{}
ZeroDefaultMetadata == [value |-> None]

\* validateDefaultType: whether the decoded value fits the kind of the field.
validateDefaultType(kind, json) ==
  CASE kind = "bool" -> json.kind = "bool"
    [] kind \in {"int", "int8", "int16", "int32", "int64", "uint", "uint8", "uint16",
                 "uint32", "uint64", "float32", "float64"} -> json.kind = "number"
    [] kind \in {"slice", "array"} -> json.kind = "array"
    [] kind \in {"map", "struct"} -> json.kind = "object"
    [] OTHER -> TRUE

\* fieldType.Elem() of a pointer type: one level, as parseDefaultValue takes
\* it.
pointee(t) == IF Kind(t) = "ptr" THEN Elem(t) ELSE t

\* parseDefaultValue: a string field takes the text as it is, every other
\* field takes it as JSON of the field's kind.
parseDefaultValue(fieldType, value) ==
  IF Kind(pointee(fieldType)) = "string" THEN ParseOk([value |-> Some(Text(value))])
  ELSE IF ~jsonUnmarshal(value).ok THEN ParseError("invalid JSON for type")
  ELSE IF ~validateDefaultType(Kind(pointee(fieldType)), jsonUnmarshal(value))
       THEN ParseError("value does not match type")
  ELSE ParseOk([value |-> IF jsonUnmarshal(value).kind = "null" THEN None
                          ELSE Some(jsonUnmarshal(value))])

\* ParseDefaultTag takes the annotation as one value, not as options.
ParseDefaultTag(fieldType, value) ==
  IF parseDefaultValue(fieldType, value).ok THEN parseDefaultValue(fieldType, value)
  ELSE ParseError("failed to parse default value: " \o parseDefaultValue(fieldType, value).err)

---------------------------------------------------------------------------
(* The registry and the builder *)

\* DefaultArrayNullable: arrays are nullable unless the package variable is
\* cleared.
DefaultArrayNullable == TRUE

\* NewMapRegistry
NewMapRegistry ==
  [schemas |-> <<>>, types |-> <<>>, seen |-> {}, inlineOnly |-> {},
   aliases |-> <<>>]

\* m[k] = v on a Go map
Put(m, k, v) == [x \in DOMAIN m \cup {k} |-> IF x = k THEN v ELSE m[x]]

\* The outcome of a call: the registry it leaves, the schema pointer it
\* returns and how it ended: "ok", "error" (an error return of the builder),
\* "panic", or "overflow" (the call stack is exhausted).
Ok(r, s) == [reg |-> r, s |-> s, status |-> "ok", err |-> None]

Fail(r, status, e) == [reg |-> r, s |-> None, status |-> status, err |-> Some(e)]

ErrorValue(kind, t, name, existing, cause, pairs) ==
  [kind |-> kind, type |-> t, name |-> name, existing |-> existing,
   cause |-> cause, pairs |-> pairs]

StackOverflow == ErrorValue("stack overflow", "", <<>>, "", "", {})

\* The depth of nested Schema calls the stack is given; the type graphs of the
\* model need fewer, so only an unbounded recursion exhausts it.
MaxDepth == 8

\* Whether the type gets a named entry and is returned as a $ref.
getsRef(t) ==
  /\ Kind(t) = "struct"
  /\ t # timeType
  /\ ~Implements(t, SchemaProvider)
  /\ ~Implements(t, TextUnmarshaler)

\* structOpts is the record of the sentinel field "_" when the metadata holds
\* one; the types of the model carry none.
applyStructLevelMetadata(s, structOpts) ==
  IF ~IsSome(structOpts) THEN s
  ELSE [s EXCEPT !.additionalProperties = Get(structOpts).additionalProperties,
                 !.nullable = Get(structOpts).nullable]

\* An alias lookup keyed by the type as passed, pointers included.
aliasFor_AsPassed(r, t0) ==
  IF t0 \in DOMAIN r.aliases THEN Some(r.aliases[t0]) ELSE None

\* alias, ok := r.aliases[t], looked up for the type behind the pointers
aliasFor(r, t0) ==
  IF deref(t0) \in DOMAIN r.aliases THEN Some(r.aliases[deref(t0)]) ELSE None

\* A registry that notes the type but stores no placeholder schema under the
\* name before it generates.
registerPlaceholder_Late(r, name, t) ==
  [r EXCEPT !.types = Put(r.types, name, t), !.seen = r.seen \cup {t}]

\* A registry whose placeholder does not record the type as seen.
registerPlaceholder_Unseen(r, name, t) ==
  [r EXCEPT !.schemas = Put(r.schemas, name, Some(ZeroSchema)),
            !.types = Put(r.types, name, t)]

\* "First, register the type so refs can be created above for recursive types."
registerPlaceholder(r, name, t) ==
  [r EXCEPT !.schemas = Put(r.schemas, name, Some(ZeroSchema)),
            !.types = Put(r.types, name, t),
            !.seen = r.seen \cup {t}]

\* The check made for a ref-worthy type whose name is taken: TRUE when the
\* call must panic with a duplicate-name error.
isDuplicate(r, name, t) == t \notin r.seen

RECURSIVE Schema(_, _, _, _, _)
RECURSIVE SchemaFromType(_, _, _)
RECURSIVE schemaFromType(_, _, _)
RECURSIVE schemaForSlice(_, _, _, _)
RECURSIVE schemaForStruct(_, _, _)
RECURSIVE processStructFields(_, _, _, _, _)

\* An end of Schema that returns the body without storing it under the name.
storeSchema_KeepPlaceholder(b, origType, ref, allowRef, name) ==
  IF b.status = "error"
  THEN Fail(b.reg, "panic",
            ErrorValue("failed to generate schema", origType, <<>>, "",
                       Get(b.err).kind, Get(b.err).pairs))
  ELSE IF b.status # "ok" THEN b
  ELSE Ok(b.reg, IF ref /\ allowRef THEN Some(RefSchema(name)) ELSE b.s)

\* The end of mapRegistry.Schema, from the result b of the builder on: a
\* builder error is a panic, a ref-worthy type is stored under its name.
storeSchema(b, origType, ref, allowRef, name) ==
  IF b.status = "error"
  THEN Fail(b.reg, "panic",
            ErrorValue("failed to generate schema", origType, <<>>, "",
                       Get(b.err).kind, Get(b.err).pairs))
  ELSE IF b.status # "ok" THEN b
  ELSE IF ref
  THEN Ok([b.reg EXCEPT !.schemas = Put(b.reg.schemas, name, b.s)],
          IF allowRef THEN Some(RefSchema(name)) ELSE b.s)
  ELSE Ok(b.reg, b.s)

\* mapRegistry.Schema from the name on: t is the type behind the pointers.
schemaNamed(r, t, origType, allowRef, name, depth) ==
  IF getsRef(t) /\ name \in DOMAIN r.schemas
  THEN IF isDuplicate(r, name, t)
       THEN Fail(r, "panic",
                 ErrorValue("duplicate name", t, name, r.types[name], "", {}))
       ELSE IF allowRef THEN Ok(r, Some(RefSchema(name)))
       ELSE Ok(r, r.schemas[name])
  ELSE storeSchema(SchemaFromType(IF getsRef(t) THEN registerPlaceholder(r, name, t) ELSE r,
                                  origType, depth - 1),
                   origType, getsRef(t), allowRef, name)

\* origType: "Pointer to array should decay to array"
origTypeOf(t0) == IF Kind(deref(t0)) \in {"array", "slice"} THEN deref(t0) ELSE t0

\* mapRegistry.Schema(t, allowRef, hint) on registry r, with depth calls of
\* stack left.
Schema(r, t0, allowRef, hint, depth) ==
  IF depth = 0 THEN Fail(r, "overflow", StackOverflow)
  ELSE IF IsSome(aliasFor(r, t0))
  THEN Schema(r, Get(aliasFor(r, t0)), allowRef, hint, depth - 1)
  ELSE schemaNamed(r, deref(t0), origTypeOf(t0), allowRef,
                   DefaultSchemaNamer(origTypeOf(t0), hint), depth)

\* The end of SchemaFromType: the transformer of the type is applied to the
\* schema b that schemaFromType returned.
transformSchema(b, t) ==
  IF b.status # "ok" THEN b
  ELSE IF Implements(t, SchemaTransformer)
  THEN Ok(b.reg, TransformSchema(t, b.s))
  ELSE b

\* schemaBuilder.SchemaFromType
SchemaFromType(r, t, depth) == transformSchema(schemaFromType(r, t, depth), deref(t))

\* case reflect.Map: o is the outcome of the Schema call for the element type
schemaForMap(o) ==
  IF o.status # "ok" THEN o
  ELSE Ok(o.reg, Some([ZeroSchema EXCEPT !.type = TypeObject,
                                         !.additionalProperties = o.s]))

\* schemaFromType after the interface and table lookups: their results are
\* fromInterface and simple.
schemaByKind(r, t, isPointer, fromInterface, simple, depth) ==
  IF IsSome(fromInterface) THEN Ok(r, fromInterface)
  ELSE IF IsSome(simple) THEN Ok(r, simple)
  ELSE CASE Kind(t) \in {"slice", "array"} -> schemaForSlice(r, t, isPointer, depth)
         [] Kind(t) = "map" ->
              schemaForMap(Schema(r, Elem(t), TRUE,
                                  Name(t) \o <<"V", "a", "l", "u", "e">>, depth))
         [] Kind(t) = "struct" -> schemaForStruct(r, t, depth)
         [] Kind(t) = "interface" -> Ok(r, Some(ZeroSchema))
         [] OTHER -> Ok(r, None)

schemaFromType(r, t0, depth) ==
  schemaByKind(r, deref(t0), Kind(t0) = "ptr",
               schemaFromInterface(deref(t0), Kind(t0) = "ptr"),
               schemaForSimpleType(deref(t0), Kind(t0) = "ptr"), depth)

\* The array schema around the items schema o.s
arraySchema(o, t) ==
  IF o.status # "ok" THEN o
  ELSE Ok(o.reg,
          Some([ZeroSchema EXCEPT
                  !.type = TypeArray,
                  !.nullable = Some(DefaultArrayNullable),
                  !.items = o.s,
                  !.minItems = IF Kind(t) = "array" THEN Some(StaticTypes[t].len) ELSE @,
                  !.maxItems = IF Kind(t) = "array" THEN Some(StaticTypes[t].len) ELSE @]))

schemaForSlice(r, t, isPointer, depth) ==
  IF Kind(Elem(t)) = "uint8"
  THEN Ok(r, Some([ZeroSchema EXCEPT !.type = TypeString,
                      !.contentEncoding = contentEncodingBase64,
                      !.contentMediaType = "application/octet-stream",
                      !.nullable = Some(isPointer)]))
  ELSE arraySchema(Schema(r, Elem(t), TRUE, Name(t) \o <<"I", "t", "e", "m">>, depth), t)

\* The merges made on the schema fs of one field, in the order of the loop.
mergeFieldSchema(fs, fieldMeta, fieldRequired) ==
  applyDefaultValue(
    applyRequiredNullable(
      applyValidateMetadata(applyOpenAPIMetadata(fs, fieldMeta), fieldMeta),
      fieldRequired),
    fieldMeta)

\* What one field adds to the loop's results: fs is its merged schema.
\* A loop that puts the newest required name first.
addField_Prepend(acc, r, fieldMeta, name, fieldRequired, fs) ==
  [acc EXCEPT !.reg = r,
              !.s = applyDependentRequired(acc.s, fieldMeta, name),
              !.props = Put(acc.props, name, fs),
              !.propNames = Append(acc.propNames, name),
              !.required = IF fieldRequired THEN <<name>> \o @ ELSE @,
              !.requiredMap = IF fieldRequired THEN @ \cup {name} ELSE @]

addField(acc, r, fieldMeta, name, fieldRequired, fs) ==
  [acc EXCEPT !.reg = r,
              !.s = applyDependentRequired(acc.s, fieldMeta, name),
              !.props = Put(acc.props, name, fs),
              !.propNames = Append(acc.propNames, name),
              !.required = IF fieldRequired THEN Append(@, name) ELSE @,
              !.requiredMap = IF fieldRequired THEN @ \cup {name} ELSE @]

\* A pass that enters a required field in the required list before it looks
\* at the field's schema.
processField_RequiredFirst(acc, fieldMeta, o) ==
  IF o.status # "ok"
  THEN [acc EXCEPT !.reg = o.reg, !.status = o.status, !.err = o.err]
  ELSE IF ~IsSome(o.s)
  THEN [acc EXCEPT !.reg = o.reg,
                   !.required = IF determineRequired(fieldMeta)
                                THEN Append(@, extractFieldName(fieldMeta)) ELSE @]
  ELSE addField(acc, o.reg, fieldMeta, extractFieldName(fieldMeta),
                determineRequired(fieldMeta),
                mergeFieldSchema(Get(o.s), fieldMeta, determineRequired(fieldMeta)))

\* One pass of the loop: o is the outcome of the Schema call for the field's
\* type; a nil schema skips the field.
processField(acc, fieldMeta, o) ==
  IF o.status # "ok"
  THEN [acc EXCEPT !.reg = o.reg, !.status = o.status, !.err = o.err]
  ELSE IF ~IsSome(o.s)
  THEN [acc EXCEPT !.reg = o.reg]
  ELSE addField(acc, o.reg, fieldMeta, extractFieldName(fieldMeta),
                determineRequired(fieldMeta),
                mergeFieldSchema(Get(o.s), fieldMeta, determineRequired(fieldMeta)))

\* The loop of processStructFields from field i on.  acc holds the registry
\* and what the loop has built so far: the object schema s (for its
\* dependentRequired), props, propNames, required and requiredMap.
processStructFields(t, fields, i, acc, depth) ==
  IF i > Len(fields) \/ acc.status # "ok" THEN acc
  ELSE processStructFields(t, fields, i + 1,
         processField(acc, fields[i],
                      Schema(acc.reg, fields[i].type, TRUE,
                             Name(t) \o fields[i].structFieldName
                                     \o <<"S", "t", "r", "u", "c", "t">>, depth)),
         depth)

\* The end of schemaForStruct: acc is what the loop built.
structSchema(acc, t, missing) ==
  IF acc.status # "ok"
  THEN [reg |-> acc.reg, s |-> None, status |-> acc.status, err |-> acc.err]
  ELSE IF missing # {}
  THEN Fail(acc.reg, "error",
            ErrorValue("dependent required validation failed", t, <<>>, "", "", missing))
  ELSE Ok(acc.reg,
          Some([applyStructLevelMetadata(acc.s, TypeOf(t).structOpts) EXCEPT
                  !.properties = Some(acc.props),
                  !.propertyNames = acc.propNames,
                  !.required = acc.required,
                  !.requiredMap = acc.requiredMap]))

\* validateDependentRequired on what the loop built
validateStruct(acc, t) == structSchema(acc, t, validateDependentRequired(acc.s, acc.props))

schemaForStruct(r, t, depth) ==
  IF TypeOf(t).metaErr
  THEN Fail(r, "error",
            ErrorValue("failed to get struct metadata", t, <<>>, "", "", {}))
  ELSE validateStruct(
         processStructFields(t, TypeOf(t).fields, 1,
           [reg |-> r, status |-> "ok", err |-> None,
            s |-> [ZeroSchema EXCEPT !.type = TypeObject],
            props |-> <<>>, propNames |-> <<>>, required |-> <<>>,
            requiredMap |-> {}],
           depth),
         t)

---------------------------------------------------------------------------
(* Reads of the registry *)

\* A Map that hands out the whole name table.
Map_Unfiltered(r) == r.schemas

\* mapRegistry.Map
Map(r) == [name \in {n \in DOMAIN r.schemas : n \notin r.inlineOnly} |-> r.schemas[name]]

HasPrefix(ref) == Len(ref) >= Len(Prefix) /\ SubSeq(ref, 1, Len(Prefix)) = Prefix

TrimPrefix(ref) == SubSeq(ref, Len(Prefix) + 1, Len(ref))

\* mapRegistry.SchemaFromRef: nil for a foreign prefix or an unknown name
SchemaFromRef(r, ref) ==
  IF ~HasPrefix(ref) THEN None
  ELSE IF TrimPrefix(ref) \in DOMAIN r.schemas THEN r.schemas[TrimPrefix(ref)]
  ELSE None

\* mapRegistry.MarkInlineOnly
MarkInlineOnly(r, t, hint) ==
  [r EXCEPT !.inlineOnly = @ \cup {DefaultSchemaNamer(deref(t), hint)}]

\* mapRegistry.RegisterTypeAlias
RegisterTypeAlias(r, t, alias) == [r EXCEPT !.aliases = Put(r.aliases, t, alias)]

---------------------------------------------------------------------------
(* Binary-format transforms.  Each returns the object its argument points   *)
(* at as the function leaves it (input) next to the schema it returns       *)
(* (output); the Go functions write to copies only.                         *)

IsByteSequence(s) == s.type = TypeString /\ s.contentEncoding = contentEncodingBase64

\* A patch written through the property pointer instead of to a copy.
multipartProperty_InPlace(prop) ==
  IF IsByteSequence(prop)
  THEN [input |-> [prop EXCEPT !.contentEncoding = "", !.format = formatBinary],
        output |-> [prop EXCEPT !.contentEncoding = "", !.format = formatBinary]]
  ELSE [input |-> prop, output |-> prop]

\* propCopy := *prop; patch propCopy
multipartProperty(prop) ==
  IF IsByteSequence(prop)
  THEN [input |-> prop,
        output |-> [prop EXCEPT !.contentEncoding = "", !.format = formatBinary]]
  ELSE [input |-> prop, output |-> prop]

transformSchemaForMultipart(s) ==
  IF ~IsSome(s) \/ ~IsSome(Get(s).properties)
  THEN [input |-> s, output |-> s, copied |-> FALSE]
  ELSE LET props == Get(Get(s).properties)
       IN  [input |-> Some([Get(s) EXCEPT !.properties =
                              Some([n \in DOMAIN props |-> multipartProperty(props[n]).input])]),
            output |-> Some([Get(s) EXCEPT !.properties =
                              Some([n \in DOMAIN props |-> multipartProperty(props[n]).output])]),
            copied |-> TRUE]

transformSchemaForFileResponse(s) ==
  IF IsSome(s) /\ IsByteSequence(Get(s))
  THEN [input |-> s,
        output |-> Some([Get(s) EXCEPT !.contentEncoding = "", !.format = formatBinary]),
        copied |-> TRUE]
  ELSE [input |-> s, output |-> s, copied |-> FALSE]

---------------------------------------------------------------------------
(* Routes, groups and middleware chains (api.go, route.go, middleware.go,   *)
(* middleware_security.go and the Group).                                    *)
(*                                                                           *)
(* A non-nil *RouteSecurity is Some(a), a being an address in a heap of      *)
(* RouteSecurity objects, so that a closure and a route which hold the same  *)
(* pointer see the same object.  The routes of the model use static          *)
(* resources: the ResourceResolver of every RouteSecurity is nil.            *)

\* RouteSecurity{}
ZeroRouteSecurity == [Roles |-> <<>>, Permissions |-> <<>>, Resource |-> "", Action |-> ""]

\* The SecurityOption values of route.go
Roles(roles) == [option |-> "Roles", values |-> roles, value |-> ""]

Permissions(perms) == [option |-> "Permissions", values |-> perms, value |-> ""]

Resource(resource) == [option |-> "Resource", values |-> <<>>, value |-> resource]

Action(action) == [option |-> "Action", values |-> <<>>, value |-> action]

\* opt(s) for a SecurityOption opt
applySecurityOption(s, opt) ==
  CASE opt.option = "Roles" -> [s EXCEPT !.Roles = @ \o opt.values]
    [] opt.option = "Permissions" -> [s EXCEPT !.Permissions = @ \o opt.values]
    [] opt.option = "Resource" -> [s EXCEPT !.Resource = opt.value]
    [] opt.option = "Action" -> [s EXCEPT !.Action = opt.value]

RECURSIVE applySecurityOptions(_, _, _)
applySecurityOptions(s, opts, i) ==
  IF i > Len(opts) THEN s
  ELSE applySecurityOptions(applySecurityOption(s, opts[i]), opts, i + 1)

hasSecurityRequirements(s) ==
  Len(s.Roles) > 0 \/ Len(s.Permissions) > 0 \/ s.Resource # ""

\* BaseRoute{Method: method, Path: path}
BaseRoute(method, path) ==
  [Method |-> method, Path |-> path, Middlewares |-> <<>>, Security |-> None]

\* The route option Secure(opts...) applied to route r: the heap and the route
\* as the option leaves them.  The options of the model set a requirement, so
\* that Secure does not panic.
Secure(heap, r, opts) ==
  LET h1 == IF IsSome(r.Security) THEN heap ELSE Append(heap, ZeroRouteSecurity)
      a == IF IsSome(r.Security) THEN Get(r.Security) ELSE Len(h1)
  IN  [heap |-> [h1 EXCEPT ![a] = applySecurityOptions(@, opts, 1)],
       route |-> [r EXCEPT !.Security = Some(a)]]

\* A Middleware value.  The closure of the security-metadata middleware holds
\* the pointer it was created with.
Middleware(kind, name, security) == [kind |-> kind, name |-> name, security |-> security]

newRouterParamsMiddleware == Middleware("routerParams", "routerParams", None)

\* nil for a nil pointer
newSecurityMetadataMiddleware(security) ==
  IF ~IsSome(security) THEN None
  ELSE Some(Middleware("securityMetadata", "securityMetadata", security))

\* A middleware of the application; it calls next once.
UserMiddleware(name) == Middleware("middleware", name, None)

UserMiddlewares(names) == [i \in 1..Len(names) |-> UserMiddleware(names[i])]

\* http.HandlerFunc(httpHandler): the handler of the route
httpHandler == [mw |-> Middleware("handler", "handler", None), next |-> None]

\* m(h) for a middleware m: the handler that runs m and hands on to h
Wrap(m, h) == [mw |-> m, next |-> Some(h)]

\* for i := len(m) - 1; i >= 0; i-- { h = m[i](h) }
RECURSIVE ApplyFrom(_, _, _)
ApplyFrom(m, i, h) == IF i < 1 THEN h ELSE ApplyFrom(m, i - 1, Wrap(m[i], h))

\* An Apply that wraps the handler in m[0] first, so that m[0] runs last.
Apply_InnermostFirst(m, handler) ==
  LET RECURSIVE Fwd(_, _)
      Fwd(j, acc) == IF j > Len(m) THEN acc ELSE Fwd(j + 1, Wrap(m[j], acc))
  IN  Fwd(1, handler)

\* Middlewares.Apply
Apply(m, handler) == IF Len(m) = 0 THEN handler ELSE ApplyFrom(m, Len(m), handler)

\* The RouteSecurityContext the security-metadata middleware resolves from
\* the object its pointer addresses, when the request arrives.
RouteSecurityContext(s, method) ==
  [Roles |-> s.Roles, Permissions |-> s.Permissions, Resource |-> s.Resource,
   Action |-> IF s.Action = "" THEN method ELSE s.Action]

\* handler.ServeHTTP(w, r): the steps a request passes, each with the
\* RouteSecurityContext it finds in the request context (ctx).
RECURSIVE ServeHTTP(_, _, _, _, _)
ServeHTTP(h, heap, method, ctx, trace) ==
  IF h.mw.kind = "handler"
  THEN Append(trace, [name |-> h.mw.name, kind |-> h.mw.kind, security |-> ctx])
  ELSE ServeHTTP(Get(h.next), heap, method,
                 IF h.mw.kind = "securityMetadata"
                 THEN Some(RouteSecurityContext(heap[Get(h.mw.security)], method))
                 ELSE ctx,
                 Append(trace, [name |-> h.mw.name, kind |-> h.mw.kind, security |-> ctx]))

\* NewGroup(api, prefixes...)
NewGroup(prefixes) == [prefixes |-> prefixes, middlewares |-> <<>>, security |-> None]

\* The API and one group on it: the heap of RouteSecurity objects, the
\* middlewares of the API, the group, the routes handed to the router
\* adapter, the request served last and the number of calls made.
NewAPI(prefixes) ==
  [heap |-> <<>>, middlewares |-> <<>>, group |-> NewGroup(prefixes),
   routes |-> <<>>, served |-> None, steps |-> 0]

\* api.UseMiddleware
UseMiddleware(w, name) == [w EXCEPT !.middlewares = Append(@, name)]

\* Group.UseMiddleware
GroupUseMiddleware(w, name) == [w EXCEPT !.group.middlewares = Append(@, name)]

\* Group.Middlewares
GroupMiddlewares(w) == w.middlewares \o w.group.middlewares

\* if g.security == nil { g.security = &RouteSecurity{} }
groupSecurity(w) ==
  IF IsSome(w.group.security) THEN w
  ELSE [w EXCEPT !.heap = Append(@, ZeroRouteSecurity),
                 !.group.security = Some(Len(w.heap) + 1)]

\* Group.UseRoles
UseRoles(w, roles) ==
  [groupSecurity(w) EXCEPT !.heap[Get(groupSecurity(w).group.security)].Roles = @ \o roles]

\* Group.UsePermissions
UsePermissions(w, perms) ==
  [groupSecurity(w) EXCEPT
     !.heap[Get(groupSecurity(w).group.security)].Permissions = @ \o perms]

\* Group.UseResource
UseResource(w, resource) ==
  [groupSecurity(w) EXCEPT !.heap[Get(groupSecurity(w).group.security)].Resource = resource]

\* Group.WithSecurity, called with a pointer to a new object (or with nil)
WithSecurity(w, security) ==
  IF IsSome(security)
  THEN [w EXCEPT !.heap = Append(@, Get(security)), !.group.security = Some(Len(w.heap) + 1)]
  ELSE [w EXCEPT !.group.security = None]

\* Group.copySecurity
copySecurity(gs) ==
  [Roles |-> gs.Roles, Permissions |-> gs.Permissions, Resource |-> gs.Resource,
   Action |-> gs.Action]

\* Group.mergeSecurityFields: the object routeSec points at, as it is left
mergeSecurityFields(gs, routeSec) ==
  [Roles |-> IF Len(routeSec.Roles) = 0 /\ Len(gs.Roles) > 0 THEN gs.Roles
             ELSE routeSec.Roles,
   Permissions |-> IF Len(routeSec.Permissions) = 0 /\ Len(gs.Permissions) > 0
                   THEN gs.Permissions ELSE routeSec.Permissions,
   Resource |-> IF routeSec.Resource = "" /\ gs.Resource # "" THEN gs.Resource
                ELSE routeSec.Resource,
   Action |-> IF routeSec.Action = "" /\ gs.Action # "" THEN gs.Action
              ELSE routeSec.Action]

\* Group.mergeSecurity: the heap and the route as it leaves them
mergeSecurity(heap, group, route) ==
  IF ~IsSome(group.security) THEN [heap |-> heap, route |-> route]
  ELSE IF ~IsSome(route.Security)
  THEN [heap |-> Append(heap, copySecurity(heap[Get(group.security)])),
        route |-> [route EXCEPT !.Security = Some(Len(heap) + 1)]]
  ELSE [heap |-> [heap EXCEPT ![Get(route.Security)] =
                    mergeSecurityFields(heap[Get(group.security)], @)],
        route |-> route]

\* PrefixModifier(prefixes): the copies of o it hands to next
PrefixModifier(prefixes, o) ==
  [i \in 1..Len(prefixes) |-> [o EXCEPT !.Path = prefixes[i] \o @]]

\* Group.ModifyOperation with the modifiers NewGroup installs: the heap as it
\* is left and the routes handed to next.
ModifyOperation(heap, group, route) ==
  [heap |-> mergeSecurity(heap, group, route).heap,
   routes |-> IF Len(group.prefixes) > 0
              THEN PrefixModifier(group.prefixes, mergeSecurity(heap, group, route).route)
              ELSE <<mergeSecurity(heap, group, route).route>>]

\* adapter.Handle(route, handler) of the router adapter: the entry it keeps.
\* An entry remembers, next to the route and the handler, how Register was
\* called: through the group or not, the security the route declared, the
\* middlewares of the API and the security of the group at that time.
Handle(route, handler, viaGroup, declared, apiMiddlewares, groupSecurity0) ==
  [route |-> route, handler |-> handler, viaGroup |-> viaGroup,
   declared |-> declared, apiMiddlewares |-> apiMiddlewares,
   groupSecurity |-> groupSecurity0]

\* Register from the middleware chain on (the OpenAPI side of Register is the
\* work of the request and response extractors).
Register(w, viaGroup, route) ==
  LET securityMiddleware == newSecurityMetadataMiddleware(route.Security)
      apiMiddlewares == IF viaGroup THEN GroupMiddlewares(w) ELSE w.middlewares
      allMiddlewares ==
        <<newRouterParamsMiddleware>>
          \o (IF IsSome(securityMiddleware) THEN <<Get(securityMiddleware)>> ELSE <<>>)
          \o UserMiddlewares(apiMiddlewares) \o UserMiddlewares(route.Middlewares)
      finalHandler == Apply(allMiddlewares, httpHandler)
      handled == IF viaGroup THEN ModifyOperation(w.heap, w.group, route)
                 ELSE [heap |-> w.heap, routes |-> <<route>>]
      declared == IF IsSome(route.Security) THEN Some(w.heap[Get(route.Security)])
                  ELSE None
      groupSecurity0 == IF IsSome(w.group.security)
                        THEN Some(w.heap[Get(w.group.security)]) ELSE None
  IN  [w EXCEPT !.heap = handled.heap,
                !.routes = @ \o [i \in 1..Len(handled.routes) |->
                                   Handle(handled.routes[i], finalHandler, viaGroup,
                                          declared, apiMiddlewares, groupSecurity0)]]

\* convenience: the route is built, the options run, the route is registered.
convenience(w, viaGroup, method, path, secure, middlewares) ==
  LET route == BaseRoute(method, path)
      secured == IF Len(secure) > 0 THEN Secure(w.heap, route, secure)
                 ELSE [heap |-> w.heap, route |-> route]
  IN  Register([w EXCEPT !.heap = secured.heap], viaGroup,
               [secured.route EXCEPT !.Middlewares = middlewares])

\* No API under test.
NoWeb == NewAPI(<<>>)

---------------------------------------------------------------------------
(* The responses of an operation (openapi_response.go).  A map of the Go     *)
(* code is a function; a nil map or pointer is None.                         *)

contentTypeJSON == "application/json"

contentTypeMultipart == "multipart/form-data"

contentTypeOctetStream == "application/octet-stream"

\* ErrorModel.ContentType(contentTypeJSON)
contentTypeProblemJSON == "application/problem+json"

StatusOK == 200

StatusUnprocessableEntity == 422

StatusInternalServerError == 500

\* http.StatusText, for the status codes of the model
StatusText(code) ==
  CASE code = 200 -> "OK"
    [] code = 201 -> "Created"
    [] code = 400 -> "Bad Request"
    [] code = 404 -> "Not Found"
    [] code = 422 -> "Unprocessable Entity"
    [] code = 500 -> "Internal Server Error"
    [] OTHER -> ""

\* strconv.Itoa of a natural number
RECURSIVE Itoa(_)
Itoa(n) ==
  LET digit(d) == <<"0", "1", "2", "3", "4", "5", "6", "7", "8", "9">>[d + 1]
  IN  IF n < 10 THEN digit(n) ELSE Itoa(n \div 10) \o digit(n % 10)

getContentType(bodyType) ==
  CASE bodyType = "multipart" -> contentTypeMultipart
    [] bodyType = "file" -> contentTypeOctetStream
    [] OTHER -> contentTypeJSON

\* The metadata of an output struct: its name, whether GetStructMetadata
\* fails on it, its field with a body tag (if any) and its fields with a
\* schema tag of location header.
OutputStruct(name, metaErr, body, headers) ==
  [name |-> name, metaErr |-> metaErr, body |-> body, headers |-> headers]

BodyField(structFieldName, type, bodyType) ==
  [structFieldName |-> structFieldName, type |-> type, bodyType |-> bodyType]

HeaderField(structFieldName, paramName, type, description) ==
  [structFieldName |-> structFieldName, paramName |-> paramName, type |-> type,
   description |-> description]

\* The output structs of the model: a JSON body with a header, a file body,
\* headers only, no fields at all, and a struct whose metadata cannot be built.
OutputTypes ==
  [t \in {"FooOutput", "FileOutput", "HeaderOutput", "EmptyOutput", "BadOutput"} |->
    CASE t = "FooOutput" ->
           OutputStruct(<<"F", "o", "o", "O", "u", "t">>, FALSE,
                        Some(BodyField(<<"B", "o", "d", "y">>, "a.Foo", "structured")),
                        <<HeaderField(<<"E", "T", "a", "g">>, <<"E", "T", "a", "g">>, "string", "Entity tag")>>)
      [] t = "FileOutput" ->
           OutputStruct(<<"F", "i", "l", "e", "O", "u", "t">>, FALSE,
                        Some(BodyField(<<"B", "o", "d", "y">>, "[]uint8", "file")), <<>>)
      [] t = "HeaderOutput" ->
           OutputStruct(<<"H", "d", "r", "O", "u", "t">>, FALSE, None,
                        <<HeaderField(<<"T", "a", "g", "s">>, <<"X", "-", "T", "a", "g", "s">>, "[]string", "")>>)
      [] t = "EmptyOutput" -> OutputStruct(<<"E", "m", "p", "t", "y", "O", "u", "t">>, FALSE, None, <<>>)
      [] t = "BadOutput" -> OutputStruct(<<"B", "a", "d", "O", "u", "t">>, TRUE, None, <<>>)]

\* FindBodyField
FindBodyField(structMeta) == structMeta.body

\* &Response{Description: description}
Response(description) == [Description |-> description, Content |-> None, Headers |-> None]

\* &MediaType{Schema: schema}
MediaType(schema) == [Schema |-> schema]

\* &Operation{}
ZeroOperation ==
  [OperationID |-> <<>>, Parameters |-> 0, RequestBody |-> FALSE, Responses |-> None]

\* The part of a BaseRoute that the response extractor reads and writes
ResponseRoute(defaultStatus, errors, operation) ==
  [DefaultStatus |-> defaultStatus, Errors |-> errors, Operation |-> operation]

initializeOperation(route) ==
  LET op == IF IsSome(route.Operation) THEN Get(route.Operation) ELSE ZeroOperation
  IN  [route EXCEPT !.Operation =
         Some([op EXCEPT !.Responses = IF IsSome(@) THEN @ ELSE Some(<<>>)])]

getDefaultStatus(route) == IF route.DefaultStatus # 0 THEN route.DefaultStatus ELSE StatusOK

\* getResponse: the operation once the response for statusCode exists
getResponse(op, statusCode) ==
  IF Itoa(statusCode) \in DOMAIN Get(op.Responses) THEN op
  ELSE [op EXCEPT !.Responses =
          Some(Put(Get(@), Itoa(statusCode), Response(StatusText(statusCode))))]

\* A write through the pointer getResponse returned
SetResponse(op, statusCode, resp) ==
  [op EXCEPT !.Responses = Some(Put(Get(@), Itoa(statusCode), resp))]

getResponseHint(outputName, fieldName, operationID) ==
  IF outputName # <<>> THEN outputName \o fieldName
  ELSE IF operationID # <<>> THEN operationID \o fieldName
  ELSE fieldName

\* extractBodySchema once the registry has returned o: the content of resp
bodyContent(content, ct, bodyType, o) ==
  LET content1 == IF DOMAIN content = {} THEN Put(content, ct, MediaType(None)) ELSE content
      bodySchema == IF bodyType = "file" THEN transformSchemaForFileResponse(o.s).output
                    ELSE o.s
  IN  IF IsSome(bodySchema) /\ ct \in DOMAIN content1 /\ ~IsSome(content1[ct].Schema)
      THEN Put(content1, ct, MediaType(bodySchema))
      ELSE content1

\* The outcome of a step of the extractor: the registry, the value it
\* produced and whether a call of the registry panicked.
Extracted(r, value, status) == [reg |-> r, value |-> value, status |-> status]

\* ResponseSchemaExtractor.extractBodySchema: the response as it is left.  The
\* body types of the model do not implement ContentTypeProvider.
extractBodySchemaFrom(bodyField, resp, hint, o) ==
  Extracted(o.reg,
            IF o.status = "ok"
            THEN [resp EXCEPT !.Content =
                    Some(bodyContent(Get(@), getContentType(bodyField.bodyType),
                                     bodyField.bodyType, o))]
            ELSE resp,
            o.status)

extractBodySchema(r, bodyField, resp, structName, op) ==
  extractBodySchemaFrom(bodyField, resp,
                        getResponseHint(structName, bodyField.structFieldName, op.OperationID),
                        Schema(r, bodyField.type, TRUE,
                               getResponseHint(structName, bodyField.structFieldName,
                                               op.OperationID),
                               MaxDepth))

\* The header of one field, once the registry has returned o
headerOf(fieldMeta, o) == [Schema |-> o.s, Description |-> fieldMeta.description]

\* ResponseSchemaExtractor.extractHeaderSchemas from field i on: the headers
\* of the response.  The header types of the model are no fmt.Stringer.
RECURSIVE extractHeaderSchemas(_, _, _, _)
extractHeaderSchemasWith(structMeta, acc, i, o) ==
  IF o.status # "ok" THEN Extracted(o.reg, acc.value, o.status)
  ELSE extractHeaderSchemas(o.reg, structMeta,
                            Extracted(o.reg,
                                      Put(acc.value, Text(structMeta.headers[i].paramName),
                                          headerOf(structMeta.headers[i], o)),
                                      "ok"),
                            i + 1)

extractHeaderSchemas(r, structMeta, acc, i) ==
  IF i > Len(structMeta.headers) THEN Extracted(r, acc.value, acc.status)
  ELSE extractHeaderSchemasWith(
         structMeta, acc, i,
         Schema(r,
                IF Kind(structMeta.headers[i].type) = "slice"
                THEN Elem(structMeta.headers[i].type) ELSE structMeta.headers[i].type,
                TRUE,
                getResponseHint(structMeta.name, structMeta.headers[i].structFieldName,
                                structMeta.headers[i].paramName),
                MaxDepth))

\* The loop of defineErrorResponses from code i on: every response without
\* content gets the error schema.
RECURSIVE errorResponses(_, _, _, _)
errorResponses(op, errorsToAdd, errorSchema, i) ==
  IF i > Len(errorsToAdd) THEN op
  ELSE LET op1 == getResponse(op, errorsToAdd[i])
           response == Get(op1.Responses)[Itoa(errorsToAdd[i])]
       IN  errorResponses(
             IF ~IsSome(response.Content)
             THEN SetResponse(op1, errorsToAdd[i],
                              [response EXCEPT !.Content =
                                 Some(Put(<<>>, contentTypeProblemJSON,
                                          MediaType(errorSchema)))])
             ELSE op1,
             errorsToAdd, errorSchema, i + 1)

\* ResponseSchemaExtractor.defineErrorResponses once the registry has
\* returned o for the error model: the operation as it is left
defineErrorResponsesWith(op, route, hasInputParams, hasInputBody, o) ==
  Extracted(o.reg,
            IF o.status = "ok"
            THEN errorResponses(op,
                                route.Errors
                                  \o (IF hasInputParams \/ hasInputBody
                                      THEN <<StatusUnprocessableEntity>> ELSE <<>>)
                                  \o <<StatusInternalServerError>>,
                                o.s, 1)
            ELSE op,
            o.status)

defineErrorResponses(r, op, route, hasInputParams, hasInputBody) ==
  defineErrorResponsesWith(op, route, hasInputParams, hasInputBody,
                           Schema(r, "ErrorModel", TRUE, <<"E", "r", "r", "o", "r">>, MaxDepth))

\* What ResponseFromType returns and leaves behind: the registry, the route
\* and "ok" (a nil error), "error" or "panic".
\* ... after the headers (h) are extracted
responseErrors(route, op, status, h) ==
  IF h.status # "ok" THEN Extracted(h.reg, [route EXCEPT !.Operation = Some(op)], h.status)
  ELSE LET op1 == SetResponse(op, status,
                              [Get(op.Responses)[Itoa(status)] EXCEPT !.Headers = Some(h.value)])
           d == defineErrorResponses(h.reg, op1, route, op1.Parameters > 0, op1.RequestBody)
       IN  Extracted(d.reg, [route EXCEPT !.Operation = Some(d.value)], d.status)

\* ... after the body (b) is extracted
responseHeaders(route, structMeta, op, status, b) ==
  IF b.status # "ok" THEN Extracted(b.reg, [route EXCEPT !.Operation = Some(op)], b.status)
  ELSE responseErrors(route, SetResponse(op, status, b.value), status,
                      extractHeaderSchemas(
                        b.reg, structMeta,
                        Extracted(b.reg,
                                  IF IsSome(b.value.Headers) THEN Get(b.value.Headers) ELSE <<>>,
                                  "ok"),
                        1))

\* ... after the operation is initialized and the success response exists
responseBody(r, route, structMeta, op, status) ==
  LET resp0 == Get(op.Responses)[Itoa(status)]
      resp == IF IsSome(resp0.Content) THEN resp0 ELSE [resp0 EXCEPT !.Content = Some(<<>>)]
      op1 == SetResponse(op, status, resp)
  IN  IF ~IsSome(FindBodyField(structMeta))
      THEN Extracted(r, [route EXCEPT !.Operation = Some(op1)], "ok")
      ELSE responseHeaders(route, structMeta, op1, status,
                           extractBodySchema(r, Get(FindBodyField(structMeta)), resp,
                                             structMeta.name, op1))

\* ResponseSchemaExtractor.ResponseFromType
ResponseFromType(r, outputType, route) ==
  IF OutputTypes[outputType].metaErr THEN Extracted(r, route, "error")
  ELSE responseBody(r, initializeOperation(route), OutputTypes[outputType],
                    getResponse(Get(initializeOperation(route).Operation),
                                getDefaultStatus(route)),
                    getDefaultStatus(route))

\* No operation under test.
NoOperation ==
  [outputType |-> "", route |-> ResponseRoute(0, <<>>, None), before |-> None, status |-> "none"]

---------------------------------------------------------------------------
(* Conditional requests (conditional/conditional.go).  An ETag is a         *)
(* sequence of characters; a time.Time is a number of seconds, the zero     *)
(* time being 0.                                                            *)

StatusNotModified == 304

StatusPreconditionFailed == 412

\* strings.Trim(value, "\"")
RECURSIVE TrimQuotes(_)
TrimQuotes(value) ==
  IF Len(value) > 0 /\ Head(value) = "\"" THEN TrimQuotes(Tail(value))
  ELSE IF Len(value) > 0 /\ value[Len(value)] = "\""
  THEN TrimQuotes(SubSeq(value, 1, Len(value) - 1))
  ELSE value

trimETag(value) ==
  TrimQuotes(IF Len(value) > 2 /\ SubSeq(value, 1, 2) = <<"W", "/">>
             THEN SubSeq(value, 3, Len(value)) ELSE value)

\* &zorya.ErrorDetail{Code: code, Location: location}; the message is left out
PreconditionDetail(code, location) == [Code |-> code, Location |-> location]

\* What a check returns: failed, and the details it collected
Checked(failed, errs) == [failed |-> failed, errs |-> errs]

\* The loop of checkIfNoneMatch from value i on
RECURSIVE noneMatchFrom(_, _, _, _, _)
noneMatchFrom(ifNoneMatch, currentETag, isWrite, i, acc) ==
  IF i > Len(ifNoneMatch) THEN acc
  ELSE IF trimETag(ifNoneMatch[i]) = currentETag
          \/ (trimETag(ifNoneMatch[i]) = <<"*">> /\ currentETag # <<>>)
  THEN noneMatchFrom(ifNoneMatch, currentETag, isWrite, i + 1,
                     Checked(TRUE,
                             IF isWrite
                             THEN Append(acc.errs, PreconditionDetail("precondition_failed",
                                                                      "headers.If-None-Match"))
                             ELSE acc.errs))
  ELSE noneMatchFrom(ifNoneMatch, currentETag, isWrite, i + 1, acc)

checkIfNoneMatch(ifNoneMatch, currentETag, isWrite) ==
  noneMatchFrom(ifNoneMatch, currentETag, isWrite, 1, Checked(FALSE, <<>>))

\* A checkIfMatch without the early return for an absent header.
checkIfMatch_AbsentFails(ifMatch, currentETag, isWrite) ==
  IF \E i \in 1..Len(ifMatch) : trimETag(ifMatch[i]) = currentETag
  THEN Checked(FALSE, <<>>)
  ELSE Checked(TRUE, IF isWrite
                     THEN <<PreconditionDetail("precondition_failed", "headers.If-Match")>>
                     ELSE <<>>)

checkIfMatch(ifMatch, currentETag, isWrite) ==
  IF Len(ifMatch) = 0 THEN Checked(FALSE, <<>>)
  ELSE IF \E i \in 1..Len(ifMatch) : trimETag(ifMatch[i]) = currentETag
  THEN Checked(FALSE, <<>>)
  ELSE Checked(TRUE, IF isWrite
                     THEN <<PreconditionDetail("precondition_failed", "headers.If-Match")>>
                     ELSE <<>>)

checkIfModifiedSince(ifModifiedSince, currentModified, isWrite) ==
  IF ifModifiedSince = 0 THEN Checked(FALSE, <<>>)
  ELSE IF ~(currentModified > ifModifiedSince)
  THEN Checked(TRUE, IF isWrite
                     THEN <<PreconditionDetail("not_modified", "headers.If-Modified-Since")>>
                     ELSE <<>>)
  ELSE Checked(FALSE, <<>>)

checkIfUnmodifiedSince(ifUnmodifiedSince, currentModified, isWrite) ==
  IF ifUnmodifiedSince = 0 THEN Checked(FALSE, <<>>)
  ELSE IF currentModified > ifUnmodifiedSince
  THEN Checked(TRUE, IF isWrite
                     THEN <<PreconditionDetail("precondition_failed",
                                               "headers.If-Unmodified-Since")>>
                     ELSE <<>>)
  ELSE Checked(FALSE, <<>>)

\* zorya.NewError(status, msg, errs...): the status and the details of the
\* ErrorModel it returns
NewError(status, errs) == [Status |-> status, Errors |-> errs]

\* The details of the checks that failed, in the order of the checks
failedDetails(checks) ==
  LET RECURSIVE From(_)
      From(i) == IF i > Len(checks) THEN <<>>
                 ELSE (IF checks[i].failed THEN checks[i].errs ELSE <<>>) \o From(i + 1)
  IN  From(1)

\* CheckPreconditions: nil (None) or the error it returns
CheckPreconditions(ifMatch, ifNoneMatch, ifModifiedSince, ifUnmodifiedSince, currentETag, currentModified, isWrite) ==
  LET checks == <<checkIfNoneMatch(ifNoneMatch, currentETag, isWrite),
                  checkIfMatch(ifMatch, currentETag, isWrite),
                  checkIfModifiedSince(ifModifiedSince, currentModified, isWrite),
                  checkIfUnmodifiedSince(ifUnmodifiedSince, currentModified, isWrite)>>
  IN  IF \E i \in 1..4 : checks[i].failed
      THEN IF isWrite THEN Some(NewError(StatusPreconditionFailed, failedDetails(checks)))
           ELSE Some(NewError(StatusNotModified, <<>>))
      ELSE None

\* Params{IfMatch: ..., ...} with the state of the resource it is checked against
Params(ifMatch, ifNoneMatch, ifModifiedSince, ifUnmodifiedSince, currentETag, currentModified, isWrite) ==
  [IfMatch |-> ifMatch, IfNoneMatch |-> ifNoneMatch, IfModifiedSince |-> ifModifiedSince,
   IfUnmodifiedSince |-> ifUnmodifiedSince, currentETag |-> currentETag,
   currentModified |-> currentModified, isWrite |-> isWrite, called |-> FALSE,
   result |-> None]

\* No conditional request under test.
NoCond == Params(<<>>, <<>>, 0, 0, <<>>, 0, FALSE)

---------------------------------------------------------------------------
(* The shared lookup tables as objects *)

\* The package-level variables lookUpByType, lookUpByKind and minZero.
SharedTables == [byType |-> lookUpByType, byKind |-> lookUpByKind, minZero |-> minZero]

\* Where a schema pointer points: at an entry of a table, or (table "") at an
\* object of its own.
Target(table, key) == [table |-> table, key |-> key]

\* return found: the pointer held by the table itself.
clone_Shared(table, key) == Target(table, key)

\* s := *found; return &s: the pointer to a copy of the entry.
clone(table, key) == Target("", "")

\* The object the pointer returned by SchemaFromType for t points at.  The
\* interface overrides, int and uint, and every composite kind build a new
\* schema.
schemaTarget(t) ==
  IF IsSome(schemaFromInterface(deref(t), Kind(t) = "ptr")) THEN Target("", "")
  ELSE IF deref(t) \in DOMAIN lookUpByType THEN clone("byType", deref(t))
  ELSE IF Kind(deref(t)) \in {"int", "uint"} THEN Target("", "")
  ELSE IF Kind(deref(t)) \in DOMAIN lookUpByKind THEN clone("byKind", Kind(deref(t)))
  ELSE Target("", "")

\* The tables after the object at target has been written to hold s.
writeThrough(tb, target, s) ==
  IF target.table = "byType" THEN [tb EXCEPT !.byType[target.key] = s]
  ELSE IF target.table = "byKind" THEN [tb EXCEPT !.byKind[target.key] = s]
  ELSE tb

RECURSIVE tablesAfterFields(_, _, _, _)
\* The tables after Schema has built the struct whose fields are fields and
\* whose schema is s: the loop of processStructFields writes the merged
\* keywords through the pointer it got for each field's type.
tablesAfterFields(tb, fields, s, i) ==
  IF i > Len(fields) THEN tb
  ELSE tablesAfterFields(
         IF extractFieldName(fields[i]) \in DOMAIN Get(s.properties)
         THEN writeThrough(tb, schemaTarget(fields[i].type),
                           Get(s.properties)[extractFieldName(fields[i])])
         ELSE tb,
         fields, s, i + 1)

---------------------------------------------------------------------------
(* Two callers of one registry *)

Threads == {1, 2}

\* No caller has entered Schema.  serialized: the callers keep the
\* single-writer discipline; fatal: the runtime has stopped the program on a
\* concurrent map access.
NoThreads ==
  [serialized |-> TRUE, fatal |-> FALSE,
   pc |-> [i \in Threads |-> "idle"], t |-> [i \in Threads |-> ""],
   allowRef |-> [i \in Threads |-> FALSE], built |-> [i \in Threads |-> None],
   ret |-> [i \in Threads |-> None]]

---------------------------------------------------------------------------
(* The state machine: calls made on one registry *)

\* The number of calls made on the registry in one behaviour.
MaxCalls == 2

Hints == {<<"h">>, <<"u", "p">>}

\* The hint decides the name of an unnamed type only.
HintsFor(t) == IF Name(deref(t)) = <<>> /\ Kind(deref(t)) = "struct" THEN Hints ELSE {<<"h">>}

\* The types the callers of the registry ask for, with either value of
\* allowRef, ...
RefCallTypes == {"a.Foo", "b.Foo", "Anon", "Node", "Tree", "Upload", "Legacy", "*Legacy"}

\* ... and those they ask for as fields and parameters, allowing a $ref.
InlineCallTypes == {"[]uint8", "*int", "Stamp", "*Node", "Loop", "Dict"}

\* RegisterTypeAlias(t, alias) calls of the model
AliasPairs ==
  {<<"Legacy", "a.Foo">>, <<"Legacy", "Stamp">>, <<"Legacy", "Legacy">>,
   <<"*Legacy", "a.Foo">>}

\* What a call record remembers of the call made before it.
NoBefore ==
  [op |-> "none", t |-> "", allowRef |-> FALSE, hint |-> <<>>, s |-> None,
   status |-> "ok"]

NoCall ==
  [op |-> "none", t |-> "", allowRef |-> FALSE, hint |-> <<>>, body |-> "",
   pre |-> NewMapRegistry, s |-> None, status |-> "ok", err |-> None,
   before |-> NoBefore]

NoTransform == [kind |-> "none", arg |-> None, input |-> None, output |-> None, copied |-> FALSE]

\* The declaration of Dyn in the behaviours of the registry.
DynDefault ==
  <<SchemaRequired(Field(<<"A">>, <<"x">>, "*int")),
    WithDependents(Field(<<"B">>, <<"y">>, "[]string"), <<(<<"x">>)>>)>>

\* No annotation under parse.
NoParse == [parser |-> "", fieldType |-> "", tag |-> <<>>, value |-> <<>>, results |-> <<>>]

Init ==
  /\ conc = NoThreads
  /\ tables = SharedTables
  /\ cond = NoCond
  /\ reg = NewMapRegistry
  /\ dynFields = DynDefault
  /\ last = NoCall
  /\ halted = FALSE
  /\ calls = 0
  /\ xform = NoTransform
  /\ parse = NoParse
  /\ web = NoWeb
  /\ oper = NoOperation

\* The record of a call: its arguments, the registry it found (pre), what it
\* returned and how it ended, and the call made before it.
Record(op, t, allowRef, hint, body, o) ==
  [op |-> op, t |-> t, allowRef |-> allowRef, hint |-> hint, body |-> body,
   pre |-> reg, s |-> o.s, status |-> o.status, err |-> o.err,
   before |-> [op |-> last.op, t |-> last.t, allowRef |-> last.allowRef,
               hint |-> last.hint, s |-> last.s, status |-> last.status]]

\* The caller takes the outcome o of a call: the registry is as the call left
\* it, and a panic (or an exhausted stack) unwinds the caller, so that no
\* further call is made on the registry.
Returns(op, t, allowRef, hint, body, o) ==
  /\ reg' = o.reg
  /\ last' = Record(op, t, allowRef, hint, body, o)
  /\ halted' = (o.status \in {"panic", "overflow"})
  /\ calls' = calls + 1
  /\ UNCHANGED <<dynFields, parse, web, oper, cond, tables, conc>>

\* A caller asks the registry for the schema of t.
CallSchema(t, allowRef, hint) ==
  /\ ~halted /\ calls < MaxCalls
  /\ Returns("Schema", t, allowRef, hint, "", Schema(reg, t, allowRef, hint, MaxDepth))
  /\ xform' = NoTransform

CallMarkInlineOnly(t, hint) ==
  /\ ~halted /\ calls < MaxCalls
  /\ reg' = MarkInlineOnly(reg, t, hint)
  /\ last' = Record("MarkInlineOnly", t, FALSE, hint, "", Ok(reg, None))
  /\ calls' = calls + 1
  /\ xform' = NoTransform
  /\ UNCHANGED <<dynFields, halted, parse, web, oper, cond, tables, conc>>

CallRegisterTypeAlias(t, alias) ==
  /\ ~halted /\ calls < MaxCalls
  /\ reg' = RegisterTypeAlias(reg, t, alias)
  /\ last' = Record("RegisterTypeAlias", t, FALSE, <<>>, alias, Ok(reg, None))
  /\ calls' = calls + 1
  /\ xform' = NoTransform
  /\ UNCHANGED <<dynFields, halted, parse, web, oper, cond, tables, conc>>

\* The type whose schema Schema(t, ...) generates: t behind its pointers and
\* aliases ("" when the aliases never end).
RECURSIVE Resolve(_, _, _)
Resolve(r, t, depth) ==
  IF depth = 0 THEN ""
  ELSE IF deref(t) \in DOMAIN r.aliases THEN Resolve(r, r.aliases[deref(t)], depth - 1)
  ELSE deref(t)

\* The name of the registry entry whose schema Schema(t, false, hint) hands
\* out by pointer, if it hands out a stored schema.
StoredName(r, t, hint) ==
  IF Resolve(r, t, MaxDepth) # "" /\ getsRef(Resolve(r, t, MaxDepth))
  THEN Some(DefaultSchemaNamer(Resolve(r, t, MaxDepth), hint))
  ELSE None

\* The transform as the variable xform records it: arg is the schema handed
\* to the transform, as it was before the call.
Transformed(kind, arg, x) ==
  [kind |-> kind, arg |-> arg, input |-> x.input, output |-> x.output,
   copied |-> x.copied]

\* The registry after a transform of the schema handed out by pointer: the
\* stored entry is the object the transform was given, as the transform left it.
AfterTransform(r, stored, x) ==
  IF IsSome(stored) THEN [r EXCEPT !.schemas = Put(r.schemas, Get(stored), x.input)]
  ELSE r

\* The multipart branch of extractRequestBody once Schema has returned o.
multipartBody(bodyType, hint, o, stored) ==
  /\ last' = Record("extractRequestBody", bodyType, FALSE, hint, "multipart", o)
  /\ halted' = (o.status \in {"panic", "overflow"})
  /\ IF o.status = "ok" /\ IsSome(o.s)
     THEN /\ xform' = Transformed("multipart", o.s, transformSchemaForMultipart(o.s))
          /\ reg' = AfterTransform(o.reg, stored, transformSchemaForMultipart(o.s))
     ELSE /\ xform' = NoTransform
          /\ reg' = o.reg
  /\ calls' = calls + 1
  /\ UNCHANGED <<dynFields, parse, web, oper, cond, tables, conc>>

\* requestSchemaExtractor.extractRequestBody from the hint on: bodyType is the
\* type of the body field and body its BodyType.
ExtractRequestBody(bodyType, body, hint) ==
  /\ ~halted /\ calls < MaxCalls
  /\ IF body = "multipart"
     THEN multipartBody(bodyType, hint,
                        Schema(MarkInlineOnly(reg, bodyType, hint), bodyType, FALSE,
                               hint, MaxDepth),
                        StoredName(reg, bodyType, hint))
     ELSE /\ Returns("extractRequestBody", bodyType, TRUE, hint, body,
                     Schema(reg, bodyType, TRUE, hint, MaxDepth))
          /\ xform' = NoTransform

\* The file branch of extractBodySchema once Schema has returned o.
fileBody(o) ==
  xform' = IF o.status = "ok" /\ IsSome(o.s)
           THEN Transformed("file", o.s, transformSchemaForFileResponse(o.s))
           ELSE NoTransform

\* ResponseSchemaExtractor.extractBodySchema from the hint on.
ExtractBodySchema(bodyType, body, hint) ==
  /\ ~halted /\ calls < MaxCalls
  /\ Returns("extractBodySchema", bodyType, TRUE, hint, body,
             Schema(reg, bodyType, TRUE, hint, MaxDepth))
  /\ IF body = "file"
     THEN fileBody(Schema(reg, bodyType, TRUE, hint, MaxDepth))
     ELSE xform' = NoTransform

Next ==
  \/ \E t \in RefCallTypes, allowRef \in BOOLEAN :
       \E hint \in HintsFor(t) : CallSchema(t, allowRef, hint)
  \/ \E t \in InlineCallTypes : CallSchema(t, TRUE, <<"h">>)
  \/ \E t \in {"Upload", "Anon"} : \E hint \in HintsFor(t) : CallMarkInlineOnly(t, hint)
  \/ \E p \in AliasPairs : CallRegisterTypeAlias(p[1], p[2])
  \/ \E t \in {"Upload", "Anon", "[]uint8"} :
       \E hint \in HintsFor(t) : ExtractRequestBody(t, "multipart", hint)
  \/ \E t \in {"Upload", "Anon"} : ExtractRequestBody(t, "structured", <<"h">>)
  \/ \E t \in {"Upload", "[]uint8"} : ExtractBodySchema(t, "file", <<"h">>)
  \/ ExtractBodySchema("Upload", "structured", <<"h">>)

Spec == Init /\ [][Next]_vars

---------------------------------------------------------------------------
(* The builder called directly, on a registry that callers have used *)

\* schemaBuilder.SchemaFromType(t), called on the builder of the registry.  An
\* error return of the builder is handed to the caller; a panic of a nested
\* registry call unwinds it.
CallSchemaFromType(t) ==
  /\ ~halted /\ calls < MaxCalls
  /\ Returns("SchemaFromType", t, FALSE, <<>>, "", SchemaFromType(reg, t, MaxDepth))
  /\ xform' = NoTransform

NextBuilder ==
  \/ \E t \in Types : CallSchemaFromType(t)
  \/ \E t \in {"a.Foo", "Upload"} : CallSchema(t, TRUE, <<"h">>)

SpecBuilder == Init /\ [][NextBuilder]_vars

---------------------------------------------------------------------------
(* Struct declarations under generation: the fields of Dyn *)

\* The largest number of fields of a declaration of Dyn.
MaxFields == 2

\* Field i of a declaration is named by its position, so the output names of
\* one declaration are distinct.
StructFieldNames == <<"A", "B", "C", "D">>

ParamNames == <<"x", "y", "z", "w">>

\* A pointer, a slice, a scalar and a type of unsupported kind.
FieldTypes == {"*int", "[]string", "string", "func()"}

\* What the annotations of one field say: whether the schema annotation and
\* the validate annotation each say required, and the hidden of the
\* documentation annotation ("absent": the field has no such annotation).
FieldChoices ==
  [type : FieldTypes, schemaRequired : BOOLEAN, validateRequired : BOOLEAN,
   hidden : {"absent", "true", "false"}]

\* The field metadata of choice c at position i.  A documentation annotation
\* also sets a title and a format, a validate annotation also sets bounds and
\* a pattern, and every field declares a default value.
MakeField(i, c) ==
  LET f0 == Field(<<StructFieldNames[i]>>, <<ParamNames[i]>>, c.type)
      f1 == IF c.schemaRequired THEN SchemaRequired(f0) ELSE f0
      f2 == IF c.validateRequired
            THEN WithValidate(f1, [ZeroValidateMetadata EXCEPT
                                     !.required = Some(TRUE),
                                     !.minimum = Some(Float(1)),
                                     !.maximum = Some(Float(5)),
                                     !.pattern = "p"])
            ELSE f1
      f3 == IF c.hidden = "absent" THEN f2
            ELSE WithOpenAPI(f2, [ZeroOpenAPIMetadata EXCEPT
                                    !.hidden = Some(c.hidden = "true"),
                                    !.title = "t", !.format = "f"])
  IN  WithDefault(f3, Some("d"))

\* The declaration that makes choice ch[i] for its field i.
FieldDecl(n, ch) == [i \in 1..n |-> MakeField(i, ch[i])]

InitFields ==
  /\ conc = NoThreads
  /\ tables = SharedTables
  /\ cond = NoCond
  /\ reg = NewMapRegistry
  /\ \E n \in 1..MaxFields : \E ch \in [1..n -> FieldChoices] :
       dynFields = FieldDecl(n, ch)
  /\ last = NoCall
  /\ halted = FALSE
  /\ calls = 0
  /\ xform = NoTransform
  /\ parse = NoParse
  /\ web = NoWeb
  /\ oper = NoOperation

\* The one generation of the declaration, on a fresh registry.
GenerateDyn(allowRef) ==
  /\ calls = 0
  /\ CallSchema("Dyn", allowRef, <<"h">>)

NextFields == GenerateDyn(FALSE)

SpecFields == InitFields /\ [][NextFields]_vars

\* The dependentRequired annotation of a field: none, an empty list, or a
\* list of output names, some of which no field of the model carries.
DependentChoices ==
  {None, Some(<<>>), Some(<<(<<"x">>)>>), Some(<<(<<"y">>)>>),
   Some(<<(<<"q">>)>>), Some(<<(<<"y">>), (<<"q">>)>>),
   Some(<<(<<"q">>), (<<"r">>)>>)}

DepFieldChoices == [type : {"string", "func()"}, deps : DependentChoices]

MakeDepField(i, c) ==
  LET f0 == Field(<<StructFieldNames[i]>>, <<ParamNames[i]>>, c.type)
  IN  IF IsSome(c.deps) THEN WithDependents(f0, Get(c.deps)) ELSE f0

DepDecl(n, ch) == [i \in 1..n |-> MakeDepField(i, ch[i])]

InitDeps ==
  /\ conc = NoThreads
  /\ tables = SharedTables
  /\ cond = NoCond
  /\ reg = NewMapRegistry
  /\ \E n \in 1..MaxFields : \E ch \in [1..n -> DepFieldChoices] :
       dynFields = DepDecl(n, ch)
  /\ last = NoCall
  /\ halted = FALSE
  /\ calls = 0
  /\ xform = NoTransform
  /\ parse = NoParse
  /\ web = NoWeb
  /\ oper = NoOperation

NextDeps == \E allowRef \in BOOLEAN : GenerateDyn(allowRef)

SpecDeps == InitDeps /\ [][NextDeps]_vars

\* The schema stored for Dyn, once generated.
---------------------------------------------------------------------------
(* Parsing the annotations of a field *)

\* The options an annotation of the model holds at most, and the number of
\* times the same annotation is parsed.
MaxOptions == 3

MaxParses == 2

Parsers == {"validate", "openapi", "openapiStruct", "default", "dependentRequired"}

\* The options the annotations of the model are written from, per parser.
ValidateItems ==
  <<Item(<<"r", "e", "q", "u", "i", "r", "e", "d">>, <<>>),
    Item(<<"m", "i", "n">>, <<"1">>),
    Item(<<"g", "t", "e">>, <<"5">>),
    Item(<<"m", "a", "x">>, <<"5">>),
    Item(<<"l", "e", "n">>, <<"1", "2">>),
    Item(<<"o", "n", "e", "o", "f">>, <<"a", " ", "b">>),
    Item(<<"e", "m", "a", "i", "l">>, <<>>),
    Item(<<"p", "a", "t", "t", "e", "r", "n">>, <<"p">>),
    Item(<<"g", "t">>, <<"x">>)>>

OpenAPIItems ==
  <<Item(<<"h", "i", "d", "d", "e", "n">>, <<>>),
    Item(<<"r", "e", "a", "d", "O", "n", "l", "y">>, <<"f", "a", "l", "s", "e">>),
    Item(<<"t", "i", "t", "l", "e">>, <<"t">>),
    Item(<<"e", "x", "a", "m", "p", "l", "e">>, <<"5">>),
    Item(<<"e", "x", "a", "m", "p", "l", "e", "s">>, <<"[", "1", "]">>),
    Item(<<"x", "-", "i", "d">>, <<"v">>),
    Item(<<"x", "-">>, <<"v">>)>>

OpenAPIStructItems ==
  <<Item(<<"a", "d", "d", "i", "t", "i", "o", "n", "a", "l", "P", "r", "o", "p", "e", "r",
           "t", "i", "e", "s">>, <<"t", "r", "u", "e">>),
    Item(<<"n", "u", "l", "l", "a", "b", "l", "e">>, <<>>),
    Item(<<"o", "t", "h", "e", "r">>, <<"1">>)>>

DependentItems ==
  <<Item(<<"x">>, <<>>), Item(<<" ", "y">>, <<>>), Item(<<"z">>, <<>>), Item(<<" ">>, <<>>)>>

ItemsOf(parser) ==
  CASE parser = "validate" -> ValidateItems
    [] parser = "openapi" -> OpenAPIItems
    [] parser = "openapiStruct" -> OpenAPIStructItems
    [] parser = "dependentRequired" -> DependentItems

\* The fields and the texts of the default annotations of the model.
DefaultFieldTypes == {"string", "bool", "int", "*int", "[]string", "map[string]int", "Legacy"}

DefaultValues ==
  {<<>>, <<"5">>, <<"t", "r", "u", "e">>, <<"[", "]">>, <<"{", "}">>, <<"n", "u", "l", "l">>,
   <<"a">>}

\* The annotation written from the options at the positions of mask.
RECURSIVE Pick(_, _, _)
Pick(items, mask, i) ==
  IF i > Len(items) THEN <<>>
  ELSE (IF i \in mask THEN <<items[i]>> ELSE <<>>) \o Pick(items, mask, i + 1)

DistinctKeys(tag) ==
  \A i, j \in 1..Len(tag) : TrimSpace(tag[i].key) = TrimSpace(tag[j].key) => i = j

Annotation(parser, fieldType, tag, value) ==
  [parser |-> parser, fieldType |-> fieldType, tag |-> tag, value |-> value,
   results |-> <<>>]

InitParse ==
  /\ conc = NoThreads
  /\ tables = SharedTables
  /\ cond = NoCond
  /\ reg = NewMapRegistry
  /\ dynFields = DynDefault
  /\ last = NoCall
  /\ halted = FALSE
  /\ calls = 0
  /\ xform = NoTransform
  /\ web = NoWeb
  /\ oper = NoOperation
  /\ \/ \E parser \in Parsers \ {"default"} :
          \E mask \in SUBSET (1..Len(ItemsOf(parser))) :
            /\ Cardinality(mask) <= MaxOptions
            /\ parse = Annotation(parser, "string", Pick(ItemsOf(parser), mask, 1), <<>>)
     \/ \E t \in DefaultFieldTypes : \E v \in DefaultValues :
          parse = Annotation("default", t, <<>>, v)

\* One more parse of the annotation, with result r.
Parsed(r) ==
  /\ Len(parse.results) < MaxParses
  /\ parse' = [parse EXCEPT !.results = Append(@, r)]
  /\ UNCHANGED <<reg, dynFields, last, halted, calls, xform, web, oper, cond, tables, conc>>

CallParseValidateTag ==
  /\ parse.parser = "validate"
  /\ \E order \in Orders(ValidatorKeys(parse.tag)) :
       Parsed(ParseValidateTag(parse.tag, order))

CallParseOpenAPITag ==
  /\ parse.parser = "openapi"
  /\ \E order \in Orders(OptionKeys(parse.tag)) :
       Parsed(ParseOpenAPITag(parse.tag, order))

CallParseOpenAPIStructTag ==
  /\ parse.parser = "openapiStruct"
  /\ \E order \in Orders(OptionKeys(parse.tag)) :
       Parsed(ParseOpenAPIStructTag(parse.tag, order))

CallParseDependentRequiredTag ==
  /\ parse.parser = "dependentRequired"
  /\ \E order \in Orders(OptionKeys(parse.tag)) :
       Parsed(ParseDependentRequiredTag(parse.tag, order))

CallParseDefaultTag ==
  /\ parse.parser = "default"
  /\ Parsed(ParseDefaultTag(parse.fieldType, parse.value))

NextParse ==
  \/ CallParseValidateTag
  \/ CallParseOpenAPITag
  \/ CallParseOpenAPIStructTag
  \/ CallParseDependentRequiredTag
  \/ CallParseDefaultTag

SpecParse == InitParse /\ [][NextParse]_vars

---------------------------------------------------------------------------
(* A struct with one field that carries a validate annotation *)

ValidatedFieldTypes == {"string", "int", "[]string", "[]func()", "[2]int", "Legacy"}

\* The options its validate annotation is written from; an annotation holds
\* an option once.
ValidatedItems ==
  <<Item(<<"o", "n", "e", "o", "f">>, <<"a">>),
    Item(<<"o", "n", "e", "o", "f">>, <<" ", "b", " ", " ", "a">>),
    Item(<<"o", "n", "e", "o", "f">>, <<"c", " ", "a", " ", "b">>),
    Item(<<"m", "i", "n">>, <<"1">>),
    Item(<<"m", "a", "x">>, <<"5">>),
    Item(<<"r", "e", "q", "u", "i", "r", "e", "d">>, <<>>)>>

\* The field metadata is built, annotations parsed, before the registry is
\* asked for the schema of the struct.
ValidatedField(t, r) == <<WithValidate(Field(<<"A">>, <<"x">>, t), Get(r.meta))>>

InitValidate ==
  /\ conc = NoThreads
  /\ tables = SharedTables
  /\ cond = NoCond
  /\ reg = NewMapRegistry
  /\ last = NoCall
  /\ halted = FALSE
  /\ calls = 0
  /\ xform = NoTransform
  /\ web = NoWeb
  /\ oper = NoOperation
  /\ \E t \in ValidatedFieldTypes :
       \E mask \in SUBSET (1..Len(ValidatedItems)) :
         /\ Cardinality(mask) <= MaxOptions
         /\ DistinctKeys(Pick(ValidatedItems, mask, 1))
         /\ \E order \in Orders(ValidatorKeys(Pick(ValidatedItems, mask, 1))) :
              /\ ParseValidateTag(Pick(ValidatedItems, mask, 1), order).ok
              /\ parse = [Annotation("validate", t, Pick(ValidatedItems, mask, 1), <<>>)
                           EXCEPT !.results =
                             <<ParseValidateTag(Pick(ValidatedItems, mask, 1), order)>>]
              /\ dynFields =
                   ValidatedField(t, ParseValidateTag(Pick(ValidatedItems, mask, 1), order))

NextValidate == \E allowRef \in BOOLEAN : GenerateDyn(allowRef)

SpecValidate == InitValidate /\ [][NextValidate]_vars

---------------------------------------------------------------------------
(* An API with one group: set-up calls, registrations and requests *)

\* The number of set-up calls and registrations made in one behaviour.
MaxSteps == 3

APIMiddlewareNames == {"auth", "log"}

GroupMiddlewareNames == {"tenant"}

RouteMiddlewareLists == {<<>>, <<"r1", "r2">>}

GroupPrefixes == {<<>>, <<"/v1">>}

\* The security options of a route; none means that Secure is not used.
SecureOptions ==
  {<<>>,
   <<Roles(<<"editor">>), Permissions(<<"posts:read">>)>>,
   <<Resource("admin-panel")>>}

InitRoutes ==
  /\ conc = NoThreads
  /\ tables = SharedTables
  /\ cond = NoCond
  /\ reg = NewMapRegistry
  /\ dynFields = DynDefault
  /\ last = NoCall
  /\ halted = FALSE
  /\ calls = 0
  /\ xform = NoTransform
  /\ parse = NoParse
  /\ oper = NoOperation
  /\ \E prefixes \in GroupPrefixes : web = NewAPI(prefixes)

\* A call made while the application sets up its routes: no request has
\* been served yet.
SetUp(w) ==
  /\ ~IsSome(web.served) /\ web.steps < MaxSteps
  /\ web' = [w EXCEPT !.steps = web.steps + 1]
  /\ UNCHANGED <<reg, dynFields, last, halted, calls, xform, parse, oper, cond, tables, conc>>

CallUseMiddleware(name) == SetUp(UseMiddleware(web, name))

CallGroupUseMiddleware(name) == SetUp(GroupUseMiddleware(web, name))

CallUseRoles(roles) == SetUp(UseRoles(web, roles))

CallUsePermissions(perms) == SetUp(UsePermissions(web, perms))

CallUseResource(resource) == SetUp(UseResource(web, resource))

CallWithSecurity(security) == SetUp(WithSecurity(web, security))

\* zorya.Get(api, ...) and zorya.Get(group, ...)
CallGet(viaGroup, secure, middlewares) ==
  SetUp(convenience(web, viaGroup, "GET", "/posts", secure, middlewares))

\* The router hands a request to the handler of its i-th route.
Serve(i) ==
  /\ i \in 1..Len(web.routes)
  /\ web' = [web EXCEPT !.served =
               Some([route |-> i,
                     trace |-> ServeHTTP(web.routes[i].handler, web.heap,
                                         web.routes[i].route.Method, None, <<>>)])]
  /\ UNCHANGED <<reg, dynFields, last, halted, calls, xform, parse, oper, cond, tables, conc>>

NextRoutes ==
  \/ \E name \in APIMiddlewareNames : CallUseMiddleware(name)
  \/ \E name \in GroupMiddlewareNames : CallGroupUseMiddleware(name)
  \/ CallUseRoles(<<"user">>)
  \/ CallUsePermissions(<<"posts:write">>)
  \/ CallUseResource("api-resources")
  \/ CallWithSecurity(Some([ZeroRouteSecurity EXCEPT !.Roles = <<"admin">>, !.Action = "manage"]))
  \/ \E viaGroup \in BOOLEAN, secure \in SecureOptions, middlewares \in RouteMiddlewareLists :
       CallGet(viaGroup, secure, middlewares)
  \/ \E i \in 1..(2 * MaxSteps) : Serve(i)

SpecRoutes == InitRoutes /\ [][NextRoutes]_vars

---------------------------------------------------------------------------
(* The response extractor called on a route *)

OutputTypeNames == DOMAIN OutputTypes

DefaultStatuses == {0, 201, 500}

ErrorLists == {<<>>, <<404>>, <<400, 404>>, <<500>>}

\* A response that the caller wrote before the extractor runs
WrittenResponse(description, ct) ==
  [Response(description) EXCEPT !.Content = Some(Put(<<>>, ct, MediaType(None)))]

\* The responses of the operation before the call: a nil map, an empty map,
\* or one response, with content or without.
ResponsesBefore ==
  {None, Some(<<>>),
   Some(Put(<<>>, "404", WrittenResponse("Gone", "text/plain"))),
   Some(Put(<<>>, "500", WrittenResponse("Broken", "text/plain"))),
   Some(Put(<<>>, "200", WrittenResponse("Fine", "text/plain"))),
   Some(Put(<<>>, "200", WrittenResponse("Fine", contentTypeJSON))),
   Some(Put(<<>>, "200", Response("Fine")))}

OperationsBefore ==
  {None} \cup
  {Some([ZeroOperation EXCEPT !.OperationID = <<"g", "e", "t">>, !.Parameters = n,
                              !.RequestBody = b, !.Responses = rs]) :
     n \in {0, 1}, b \in BOOLEAN, rs \in ResponsesBefore}

InitResponse ==
  /\ conc = NoThreads
  /\ tables = SharedTables
  /\ cond = NoCond
  /\ reg = NewMapRegistry
  /\ dynFields = DynDefault
  /\ last = NoCall
  /\ halted = FALSE
  /\ calls = 0
  /\ xform = NoTransform
  /\ parse = NoParse
  /\ web = NoWeb
  /\ \E t \in OutputTypeNames, status \in DefaultStatuses, errors \in ErrorLists,
        operation \in OperationsBefore :
       oper = [outputType |-> t, route |-> ResponseRoute(status, errors, operation),
               before |-> None, status |-> "none"]

\* What the caller is left with when ResponseFromType has returned x.
Responded(x) ==
  /\ oper' = [oper EXCEPT !.route = x.value, !.before = Some(oper.route),
                          !.status = x.status]
  /\ reg' = x.reg
  /\ UNCHANGED <<dynFields, last, halted, calls, xform, parse, web, cond, tables, conc>>

CallResponseFromType ==
  /\ oper.status = "none"
  /\ Responded(ResponseFromType(reg, oper.outputType, oper.route))

NextResponse == CallResponseFromType

SpecResponse == InitResponse /\ [][NextResponse]_vars

---------------------------------------------------------------------------
DynName == DefaultSchemaNamer("Dyn", <<"h">>)

DynSchema == Get(reg.schemas[DynName])

DynGenerated ==
  /\ last.op = "Schema" /\ last.t = "Dyn" /\ last.status = "ok"
  /\ DynName \in DOMAIN reg.schemas /\ IsSome(reg.schemas[DynName])

DynProps == Get(DynSchema.properties)

---------------------------------------------------------------------------
(* A handler checks the preconditions of a request *)

\* An ETag a, as the resource has it and as headers write it, another one,
\* and the wildcard.
ETagValues ==
  {<<"a">>, <<"\"", "a", "\"">>, <<"W", "/", "\"", "a", "\"">>, <<"b">>, <<"*">>}

ETagLists == {<<>>} \cup {<<v>> : v \in ETagValues} \cup {<<(<<"b">>), (<<"\"", "a", "\"">>)>>}

CurrentETags == {<<>>, <<"a">>, <<"\"", "a", "\"">>}

Times == 0..2

InitConditional ==
  /\ conc = NoThreads
  /\ tables = SharedTables
  /\ reg = NewMapRegistry
  /\ dynFields = DynDefault
  /\ last = NoCall
  /\ halted = FALSE
  /\ calls = 0
  /\ xform = NoTransform
  /\ parse = NoParse
  /\ web = NoWeb
  /\ oper = NoOperation
  /\ \E ifMatch \in ETagLists, ifNoneMatch \in ETagLists, since \in Times,
        unmodifiedSince \in Times, currentETag \in CurrentETags, modified \in Times,
        isWrite \in BOOLEAN :
       cond = Params(ifMatch, ifNoneMatch, since, unmodifiedSince, currentETag, modified,
                     isWrite)

\* Params.CheckPreconditions
CallCheckPreconditions ==
  /\ ~cond.called
  /\ cond' = [cond EXCEPT !.called = TRUE,
                          !.result = CheckPreconditions(cond.IfMatch, cond.IfNoneMatch,
                                                        cond.IfModifiedSince,
                                                        cond.IfUnmodifiedSince,
                                                        cond.currentETag,
                                                        cond.currentModified, cond.isWrite)]
  /\ UNCHANGED <<reg, dynFields, last, halted, calls, xform, parse, web, oper, tables, conc>>

NextConditional == CallCheckPreconditions

SpecConditional == InitConditional /\ [][NextConditional]_vars

---------------------------------------------------------------------------
(* A struct with one annotated field, and the shared tables *)

\* Scalars of each table kind, a pointer, slices, a map and a struct (whose
\* field schema is a reference).
MergedFieldTypes ==
  {"string", "int", "uint8", "float64", "*int", "*string", "bool", "[]string",
   "[]uint8", "map[string]int", "a.Foo"}

\* The documentation annotation: none, one with a title only, one with a
\* format.
DocChoices == {"absent", "title", "format"}

\* The validate annotation: none, min=1.5, max=5, both, or email.
ValidateChoices == {"absent", "min", "max", "minmax", "email"}

DocOf(c) ==
  IF c = "title" THEN [ZeroOpenAPIMetadata EXCEPT !.title = "t"]
  ELSE [ZeroOpenAPIMetadata EXCEPT !.format = "f"]

ValidateOf(c) ==
  [ZeroValidateMetadata EXCEPT
     !.minimum = IF c \in {"min", "minmax"} THEN Some(Float(1) + 1) ELSE None,
     !.maximum = IF c \in {"max", "minmax"} THEN Some(Float(5)) ELSE None,
     !.format = IF c = "email" THEN "email" ELSE ""]

MergedField(t, doc, val) ==
  LET f0 == Field(<<"A">>, <<"x">>, t)
      f1 == IF doc = "absent" THEN f0 ELSE WithOpenAPI(f0, DocOf(doc))
  IN  IF val = "absent" THEN f1 ELSE WithValidate(f1, ValidateOf(val))

InitMerge ==
  /\ conc = NoThreads
  /\ tables = SharedTables
  /\ cond = NoCond
  /\ reg = NewMapRegistry
  /\ \E t \in MergedFieldTypes : \E doc \in DocChoices : \E val \in ValidateChoices :
       dynFields = <<MergedField(t, doc, val)>>
  /\ last = NoCall
  /\ halted = FALSE
  /\ calls = 0
  /\ xform = NoTransform
  /\ parse = NoParse
  /\ web = NoWeb
  /\ oper = NoOperation

\* The caller takes the outcome o of Schema(Dyn); the writes the field loop
\* made through its schema pointers are in the tables.
ReturnsMerged(allowRef, o) ==
  /\ reg' = o.reg
  /\ last' = Record("Schema", "Dyn", allowRef, <<"h">>, "", o)
  /\ halted' = (o.status \in {"panic", "overflow"})
  /\ calls' = calls + 1
  /\ xform' = NoTransform
  /\ tables' = IF o.status = "ok"
               THEN tablesAfterFields(tables, dynFields,
                                      Get(o.reg.schemas[DefaultSchemaNamer("Dyn", <<"h">>)]), 1)
               ELSE tables
  /\ UNCHANGED <<dynFields, parse, web, oper, cond, conc>>

\* The one generation of the declaration, on a fresh registry.
GenerateMerged(allowRef) ==
  /\ calls = 0
  /\ ReturnsMerged(allowRef, Schema(reg, "Dyn", allowRef, <<"h">>, MaxDepth))

NextMerge == \E allowRef \in BOOLEAN : GenerateMerged(allowRef)

SpecMerge == InitMerge /\ [][NextMerge]_vars

---------------------------------------------------------------------------
(* Overlapping Schema calls: the steps of mapRegistry.Schema *)

\* The types the two callers ask for, all ref-worthy, under the hint h.
ConcurrentTypes == {"Node", "Tree", "a.Foo"}

NameOf(t) == DefaultSchemaNamer(t, <<"h">>)

InitConcurrent ==
  /\ tables = SharedTables
  /\ cond = NoCond
  /\ reg = NewMapRegistry
  /\ dynFields = <<>>
  /\ last = NoCall
  /\ halted = FALSE
  /\ calls = 0
  /\ xform = NoTransform
  /\ parse = NoParse
  /\ web = NoWeb
  /\ oper = NoOperation
  /\ \E serialized \in BOOLEAN : conc = [NoThreads EXCEPT !.serialized = serialized]

\* Thread i is between its placeholder and its return.
InCall(i) == conc.pc[i] \in {"building", "built"}

\* Thread i calls Schema(t, allowRef, "h") and runs it up to the builder: a
\* name that is registered is answered from the table, else the placeholder
\* is written.  Under the single-writer discipline no other call is under way.
Enter(i, t, allowRef) ==
  /\ ~conc.fatal
  /\ conc.pc[i] = "idle"
  /\ conc.serialized => \A j \in Threads \ {i} : ~InCall(j)
  /\ IF NameOf(t) \in DOMAIN reg.schemas
     THEN /\ conc' = [conc EXCEPT
                        !.pc[i] = IF isDuplicate(reg, NameOf(t), t) THEN "panicked" ELSE "done",
                        !.t[i] = t, !.allowRef[i] = allowRef,
                        !.ret[i] = IF isDuplicate(reg, NameOf(t), t) THEN None
                                   ELSE IF allowRef THEN Some(RefSchema(NameOf(t)))
                                   ELSE reg.schemas[NameOf(t)]]
          /\ reg' = reg
     ELSE /\ conc' = [conc EXCEPT !.pc[i] = "building", !.t[i] = t,
                                  !.allowRef[i] = allowRef]
          /\ reg' = registerPlaceholder(reg, NameOf(t), t)
  /\ UNCHANGED <<dynFields, last, halted, calls, xform, parse, web, oper, cond, tables>>

\* The builder call of thread i; it registers the types of the fields.
Build(i) ==
  /\ ~conc.fatal
  /\ conc.pc[i] = "building"
  /\ LET b == SchemaFromType(reg, conc.t[i], MaxDepth - 1)
     IN  /\ reg' = b.reg
         /\ conc' = [conc EXCEPT !.pc[i] = IF b.status = "ok" THEN "built" ELSE "panicked",
                                 !.built[i] = b.s]
  /\ UNCHANGED <<dynFields, last, halted, calls, xform, parse, web, oper, cond, tables>>

\* Thread i stores what it built under the name and returns.
Store(i) ==
  /\ ~conc.fatal
  /\ conc.pc[i] = "built"
  /\ LET o == storeSchema(Ok(reg, conc.built[i]), conc.t[i], TRUE, conc.allowRef[i],
                          NameOf(conc.t[i]))
     IN  /\ reg' = o.reg
         /\ conc' = [conc EXCEPT !.pc[i] = "done", !.ret[i] = o.s]
  /\ UNCHANGED <<dynFields, last, halted, calls, xform, parse, web, oper, cond, tables>>

\* Two calls are under way at once: their accesses to the maps of the
\* registry race, and the runtime may stop the program.
Race ==
  /\ ~conc.fatal
  /\ \A i \in Threads : InCall(i)
  /\ conc' = [conc EXCEPT !.fatal = TRUE]
  /\ UNCHANGED <<reg, dynFields, last, halted, calls, xform, parse, web, oper, cond, tables>>

NextConcurrent ==
  \/ \E i \in Threads, t \in ConcurrentTypes, allowRef \in BOOLEAN : Enter(i, t, allowRef)
  \/ \E i \in Threads : Build(i)
  \/ \E i \in Threads : Store(i)
  \/ Race

SpecConcurrent == InitConcurrent /\ [][NextConcurrent]_vars

---------------------------------------------------------------------------
(* Properties of the registry: names, recursion, repeated calls *)

\* The name mapRegistry.Schema gives the type of the last call.
LastName == DefaultSchemaNamer(origTypeOf(last.t), last.hint)

\* C1: on a registry that has only served Schema calls, a request for a
\* ref-worthy type whose name is registered for a different type panics with
\* a duplicate-name error (and so returns neither the stored schema of that
\* other type nor a $ref to its name).
C1_DuplicateNamePanics ==
  (/\ last.op = "Schema" /\ last.before.op = "Schema" /\ calls = 2
   /\ getsRef(deref(last.t))
   /\ LastName \in DOMAIN last.pre.types
   /\ last.pre.types[LastName] # deref(last.t))
  => (/\ last.status = "panic"
      /\ Get(last.err).kind = "duplicate name")

\* A struct type with a field whose type is the struct itself or a pointer
\* to it, and the output names of those fields.
SelfFields(t) ==
  {i \in 1..Len(TypeOf(t).fields) :
     \/ TypeOf(t).fields[i].type = t
     \/ /\ Kind(TypeOf(t).fields[i].type) = "ptr"
        /\ Elem(TypeOf(t).fields[i].type) = t}

SelfReferential(t) == Kind(t) = "struct" /\ SelfFields(t) # {}

C2_Requested ==
  /\ last.op = "Schema"
  /\ SelfReferential(deref(last.t))
  /\ deref(last.t) \notin DOMAIN last.pre.aliases

\* C2: Schema for a self-referential struct type T ends (the stack is not
\* exhausted), and in the schema stored for T the property of each
\* self-typed field is a $ref to the prefix followed by T's own name.
C2_RecursionTerminates ==
  C2_Requested =>
    /\ last.status = "ok"
    /\ LastName \in DOMAIN reg.schemas
    /\ IsSome(reg.schemas[LastName])
    /\ IsSome(Get(reg.schemas[LastName]).properties)
    /\ \A i \in SelfFields(deref(last.t)) :
         LET n == extractFieldName(TypeOf(deref(last.t)).fields[i])
             props == Get(Get(reg.schemas[LastName]).properties)
         IN  n \in DOMAIN props /\ props[n].ref = Prefix \o LastName

\* A self-referential type generated by this call, not found registered.
C2_Witness ==
  /\ C2_Requested
  /\ last.status = "ok"
  /\ LastName \notin DOMAIN last.pre.schemas
  /\ LastName \in DOMAIN reg.schemas

C3_Repeated ==
  /\ last.op = "Schema" /\ last.before.op = "Schema"
  /\ last.before.status = "ok"
  /\ last.before.t = last.t
  /\ last.before.allowRef = last.allowRef
  /\ last.before.hint = last.hint

\* C3: a Schema call that repeats the call before it returns what that call
\* returned and leaves the name table and every stored body as they were;
\* and after any Schema call that returned, the same call made again would
\* return the same and change neither.
C3_Idempotent ==
  /\ C3_Repeated =>
       /\ last.status = "ok"
       /\ last.s = last.before.s
       /\ DOMAIN reg.schemas = DOMAIN last.pre.schemas
       /\ \A n \in DOMAIN reg.schemas :
            reg.schemas[n] = last.pre.schemas[n] /\ reg.types[n] = last.pre.types[n]
  /\ (last.op = "Schema" /\ last.status = "ok") =>
       LET again == Schema(reg, last.t, last.allowRef, last.hint, MaxDepth)
       IN  /\ again.status = "ok"
           /\ again.s = last.s
           /\ DOMAIN again.reg.schemas = DOMAIN reg.schemas
           /\ \A n \in DOMAIN reg.schemas :
                again.reg.schemas[n] = reg.schemas[n] /\ again.reg.types[n] = reg.types[n]

\* The second of two equal calls for a ref-worthy type.
C3_Witness ==
  /\ C3_Repeated
  /\ getsRef(deref(last.t))
  /\ last.status = "ok"
  /\ LastName \in DOMAIN reg.schemas

---------------------------------------------------------------------------
(* Properties of the struct builder *)

\* C4: in the object schema generated for a struct, every property named in
\* the required list has nullable unset or false, whatever the type of the
\* field and the metadata merged into its schema.
C4_RequiredNotNullable ==
  DynGenerated =>
    \A i \in 1..Len(DynSchema.required) :
      /\ DynSchema.required[i] \in DOMAIN DynProps
      /\ DynProps[DynSchema.required[i]].nullable # Some(TRUE)

\* A required pointer field whose schema carries documentation, validation
\* and default metadata, next to the correction of its nullable.
C4_Witness ==
  /\ DynGenerated
  /\ \E i \in 1..Len(dynFields) :
       LET n == extractFieldName(dynFields[i])
       IN  /\ dynFields[i].type = "*int"
           /\ n \in RangeOf(DynSchema.required)
           /\ DynProps[n].nullable = Some(FALSE)
           /\ DynProps[n].title = "t"
           /\ DynProps[n].maximum = Some(Float(5))
           /\ DynProps[n].default = Some("d")

FieldHidden(f) == IsSome(f.openapi) /\ Get(f.openapi).hidden = Some(TRUE)

SchemaSaysRequired(f) == IsSome(f.schema) /\ Get(f.schema).required

ValidateSaysRequired(f) == IsSome(f.validate) /\ Get(f.validate).required = Some(TRUE)

\* C5: a hidden field is never in the required list, whatever its schema and
\* validate annotations say; a field that is not hidden counts as required
\* exactly when one of the two annotations says so, and its property is then,
\* and only then, in the required list.
C5_HiddenOverridesRequired ==
  /\ \A i \in 1..Len(dynFields) :
       determineRequired(dynFields[i])
         = (/\ ~FieldHidden(dynFields[i])
            /\ (SchemaSaysRequired(dynFields[i]) \/ ValidateSaysRequired(dynFields[i])))
  /\ DynGenerated =>
       \A i \in 1..Len(dynFields) :
         LET f == dynFields[i]
             listed == extractFieldName(f) \in RangeOf(DynSchema.required)
         IN  /\ FieldHidden(f) => ~listed
             /\ (~FieldHidden(f) /\ extractFieldName(f) \in DOMAIN DynProps) =>
                  (listed <=> (SchemaSaysRequired(f) \/ ValidateSaysRequired(f)))

\* A hidden field that both annotations call required, left out of the
\* required list beside a field that is in it.
C5_Witness ==
  /\ DynGenerated
  /\ \E i \in 1..Len(dynFields) :
       /\ FieldHidden(dynFields[i])
       /\ SchemaSaysRequired(dynFields[i])
       /\ ValidateSaysRequired(dynFields[i])
       /\ extractFieldName(dynFields[i]) \in DOMAIN DynProps
       /\ extractFieldName(dynFields[i]) \notin RangeOf(DynSchema.required)
  /\ DynSchema.required # <<>>

\* The fields of the declaration that carry a dependentRequired annotation
\* naming at least one dependent, and those among them whose type yields a
\* schema (a field of unsupported kind yields none and is skipped).
Annotated ==
  {i \in 1..Len(dynFields) :
     /\ IsSome(dynFields[i].dependentRequired)
     /\ Len(Get(dynFields[i].dependentRequired).dependents) > 0}

YieldsProperty(i) == Kind(deref(dynFields[i].type)) # "func"

PropertyNames ==
  {extractFieldName(dynFields[i]) : i \in {j \in 1..Len(dynFields) : YieldsProperty(j)}}

\* The (source field, missing dependent) pairs of the annotations of fields.
MissingPairs(fields) ==
  UNION {{<<extractFieldName(dynFields[i]), d>> :
            d \in {e \in RangeOf(Get(dynFields[i].dependentRequired).dependents) :
                     e \notin PropertyNames}} :
         i \in fields}

\* Generation of Dyn failed with exactly these pairs reported.
FailsWith(pairs) ==
  /\ last.status = "panic"
  /\ Get(last.err).kind = "failed to generate schema"
  /\ Get(last.err).cause = "dependent required validation failed"
  /\ Get(last.err).pairs = pairs

\* Generation of Dyn succeeded and the object schema's dependentRequired maps
\* the output name of each of these fields, and no other name, to its
\* dependents.
SucceedsWith(fields) ==
  /\ DynGenerated
  /\ LET dr == IF IsSome(DynSchema.dependentRequired)
               THEN Get(DynSchema.dependentRequired) ELSE <<>>
     IN  /\ DOMAIN dr = {extractFieldName(dynFields[i]) : i \in fields}
         /\ \A i \in fields :
              dr[extractFieldName(dynFields[i])]
                = Get(dynFields[i].dependentRequired).dependents

\* C6 as stated: if any annotation of the struct names a dependent that is no
\* generated property, generation fails and reports every such pair; else it
\* succeeds and dependentRequired maps each annotated field to its dependents.
C6_EveryAnnotation ==
  last.op = "Schema" =>
    IF MissingPairs(Annotated) # {}
    THEN FailsWith(MissingPairs(Annotated))
    ELSE SucceedsWith(Annotated)

\* C6, amended: the annotations that count are those of the fields that yield
\* a property; the annotation of a skipped field is dropped with the field.
C6_AnnotationsOfProperties ==
  last.op = "Schema" =>
    IF MissingPairs({i \in Annotated : YieldsProperty(i)}) # {}
    THEN FailsWith(MissingPairs({i \in Annotated : YieldsProperty(i)}))
    ELSE SucceedsWith({i \in Annotated : YieldsProperty(i)})

\* A failure that reports more than one pair.
C6_Witness ==
  /\ last.op = "Schema"
  /\ FailsWith(MissingPairs({i \in Annotated : YieldsProperty(i)}))
  /\ Cardinality(Get(last.err).pairs) >= 2

---------------------------------------------------------------------------
(* Properties of the registry's output map, the transforms and aliases *)

\* The names the last call marked inline-only.
MarkedByLast ==
  IF \/ last.op = "MarkInlineOnly"
     \/ (last.op = "extractRequestBody" /\ last.body = "multipart")
  THEN {DefaultSchemaNamer(deref(last.t), last.hint)}
  ELSE {}

\* C7: the inline-only names are those marked so far, and Map() holds exactly
\* the entries of the name table under the other names; after a multipart
\* body is extracted its own name is no key of Map(), while the names the
\* extraction registered for the types nested in it are.
C7_MapExcludesInlineOnly ==
  /\ reg.inlineOnly = last.pre.inlineOnly \cup MarkedByLast
  /\ DOMAIN Map(reg) = DOMAIN reg.schemas \ reg.inlineOnly
  /\ \A n \in DOMAIN Map(reg) : Map(reg)[n] = reg.schemas[n]
  /\ (last.op = "extractRequestBody" /\ last.body = "multipart") =>
       /\ \A n \in MarkedByLast : n \notin DOMAIN Map(reg)
       /\ \A n \in DOMAIN reg.schemas \ DOMAIN last.pre.schemas :
            (n \notin MarkedByLast /\ n \notin last.pre.inlineOnly) => n \in DOMAIN Map(reg)

\* A multipart body whose own schema is registered and kept out of Map(),
\* next to the schema of a type nested in it, which Map() holds.
C7_Witness ==
  /\ last.op = "extractRequestBody" /\ last.body = "multipart"
  /\ last.status = "ok"
  /\ \E n \in MarkedByLast : n \in DOMAIN reg.schemas /\ n \notin DOMAIN Map(reg)
  /\ \E n \in DOMAIN reg.schemas \ DOMAIN last.pre.schemas :
       n \notin MarkedByLast /\ n \in DOMAIN Map(reg)

\* A byte-sequence schema rewritten to the binary format.
Binary(s) == [s EXCEPT !.contentEncoding = "", !.format = formatBinary]

\* Whether s or a schema nested in it (a property, the items, the additional
\* properties) is a byte-sequence schema.
RECURSIVE ByteSequenceIn(_)
ByteSequenceIn(s) ==
  \/ IsByteSequence(s)
  \/ (IsSome(s.items) /\ ByteSequenceIn(Get(s.items)))
  \/ (IsSome(s.additionalProperties) /\ ByteSequenceIn(Get(s.additionalProperties)))
  \/ (IsSome(s.properties)
        /\ \E n \in DOMAIN Get(s.properties) : ByteSequenceIn(Get(s.properties)[n]))

\* The schema the transform was handed is, after it, as it was before; so is
\* the registry entry it was handed out from, if it was.
InputUntouched ==
  /\ xform.input = xform.arg
  /\ (xform.kind = "multipart" /\ IsSome(StoredName(last.pre, last.t, last.hint))) =>
       reg.schemas[Get(StoredName(last.pre, last.t, last.hint))] = xform.arg

\* C8 as stated: the schema a transform returns holds no byte-sequence schema
\* any more, and the input is untouched.
C8_EveryByteSequence ==
  xform.kind # "none" =>
    /\ IsSome(xform.output)
    /\ ~ByteSequenceIn(Get(xform.output))
    /\ InputUntouched

\* C8, amended: the multipart transform rewrites the direct properties of the
\* body schema that are byte sequences (a body without properties is returned
\* as it is), the file transform rewrites the body schema if it is itself a
\* byte sequence; everything else is returned as it was, and the input is
\* untouched.
C8_DirectByteSequences ==
  xform.kind # "none" =>
    /\ IsSome(xform.arg) /\ IsSome(xform.output)
    /\ xform.kind = "multipart" =>
         IF IsSome(Get(xform.arg).properties)
         THEN LET props == Get(Get(xform.arg).properties)
              IN  Get(xform.output) =
                    [Get(xform.arg) EXCEPT !.properties =
                       Some([n \in DOMAIN props |->
                               IF IsByteSequence(props[n]) THEN Binary(props[n])
                               ELSE props[n]])]
         ELSE xform.output = xform.arg
    /\ xform.kind = "file" =>
         Get(xform.output) = IF IsByteSequence(Get(xform.arg)) THEN Binary(Get(xform.arg))
                             ELSE Get(xform.arg)
    /\ InputUntouched

\* A stored multipart body with a byte-sequence property: binary in the
\* schema returned, still base64 in the registry.
C8_Witness ==
  /\ xform.kind = "multipart"
  /\ IsSome(StoredName(last.pre, last.t, last.hint))
  /\ \E n \in DOMAIN Get(Get(xform.arg).properties) :
       /\ IsByteSequence(Get(Get(xform.arg).properties)[n])
       /\ Get(Get(xform.output).properties)[n].format = formatBinary
       /\ Get(Get(xform.output).properties)[n].contentEncoding = ""
       /\ IsByteSequence(Get(Get(reg.schemas[Get(StoredName(last.pre, last.t, last.hint))]).properties)[n])

C9_Requested ==
  /\ last.op = "Schema"
  /\ deref(last.t) \in DOMAIN last.pre.aliases

\* C9: a Schema call for a type A with a registered alias B, passed directly
\* or through pointers, ends as the same call for B on the same registry
\* ends, with the same result and the same registry; it registers B's name
\* when B is ref-worthy, and neither A nor a name of A's own.
C9_AliasTransparent ==
  C9_Requested =>
    LET A == deref(last.t)
        B == last.pre.aliases[A]
        forB == Schema(last.pre, B, last.allowRef, last.hint, MaxDepth)
        target == Resolve(last.pre, B, MaxDepth)
    IN  /\ last.status = forB.status
        /\ last.s = forB.s
        /\ last.err = forB.err
        /\ reg = forB.reg
        /\ (last.status = "ok" /\ target # "" /\ getsRef(target)) =>
             DefaultSchemaNamer(target, last.hint) \in DOMAIN reg.schemas
        /\ A \notin last.pre.seen => A \notin reg.seen
        /\ DefaultSchemaNamer(A, last.hint) \notin DOMAIN last.pre.schemas =>
             DefaultSchemaNamer(A, last.hint) \notin DOMAIN reg.schemas

\* An aliased type requested through a pointer, answered with its alias.
C9_Witness ==
  /\ C9_Requested
  /\ Kind(last.t) = "ptr"
  /\ last.status = "ok"
  /\ getsRef(last.pre.aliases[deref(last.t)])
  /\ DefaultSchemaNamer(last.pre.aliases[deref(last.t)], last.hint) \in DOMAIN reg.schemas
  /\ DefaultSchemaNamer(deref(last.t), last.hint) \notin DOMAIN reg.schemas

\* The schema the override interfaces of t choose, for a type that
\* implements one of them.
InterfaceSchema(t, isPointer) ==
  IF Implements(t, SchemaProvider) THEN ProviderSchema(t)
  ELSE Some([ZeroSchema EXCEPT !.type = TypeString, !.nullable = Some(isPointer)])

\* C10: the builder gives a SchemaProvider type exactly the schema its Schema
\* method returns, a TextUnmarshaler type that is no SchemaProvider a plain
\* string schema, nullable exactly through a pointer, and applies the
\* TransformSchema of a SchemaTransformer type to that schema, last.
C10_ResolutionOrder ==
  (/\ last.op = "SchemaFromType"
   /\ \/ Implements(deref(last.t), SchemaProvider)
      \/ Implements(deref(last.t), TextUnmarshaler))
  => /\ last.status = "ok"
     /\ last.s = IF Implements(deref(last.t), SchemaTransformer)
                 THEN TransformSchema(deref(last.t),
                                      InterfaceSchema(deref(last.t), Kind(last.t) = "ptr"))
                 ELSE InterfaceSchema(deref(last.t), Kind(last.t) = "ptr")

---------------------------------------------------------------------------
(* Properties of the validate merge *)

\* The values of the oneof option of the annotation, in the order written.
Enumeration ==
  IF \E i \in 1..Len(parse.tag) : Text(TrimSpace(parse.tag[i].key)) = "oneof"
  THEN LET i == CHOOSE j \in 1..Len(parse.tag) : Text(TrimSpace(parse.tag[j].key)) = "oneof"
       IN  enumValues(Fields(TrimSpace(parse.tag[i].value), <<>>))
  ELSE <<>>

\* The schema generated for the annotated field, and the schema the
\* enumeration is meant for: the items of an array that has items, else the
\* field schema itself.
ValidatedProperty == DynProps[<<"x">>]

EnumTarget ==
  IF ValidatedProperty.type = TypeArray /\ IsSome(ValidatedProperty.items)
  THEN Get(ValidatedProperty.items)
  ELSE ValidatedProperty

\* The enumeration as it is to be written on schema s.
EnumerationOn(s) ==
  /\ Len(Enumeration) = 1 => (s.const = Some(Enumeration[1]) /\ s.enum = <<>>)
  /\ Len(Enumeration) >= 2 => (s.enum = Enumeration /\ s.const = None)
  /\ Len(Enumeration) = 0 => (s.enum = <<>> /\ s.const = None)

\* C11: a oneof with exactly one value sets const on the target schema and
\* leaves enum unset; with two or more values it sets enum to the values in
\* the order written and leaves const unset; a validate annotation without
\* oneof sets neither.
C11_ConstOrEnum == DynGenerated => EnumerationOn(EnumTarget)

\* A oneof with one value, written as const on the schema of a string field.
C11_Witness ==
  /\ DynGenerated
  /\ Len(Enumeration) = 1
  /\ ValidatedProperty.type = TypeString
  /\ ValidatedProperty.const = Some("a")
  /\ ValidatedProperty.enum = <<>>

\* The min and max options of the annotation, as item counts.
ItemBound(key) ==
  IF \E i \in 1..Len(parse.tag) : Text(TrimSpace(parse.tag[i].key)) = key
  THEN LET i == CHOOSE j \in 1..Len(parse.tag) : Text(TrimSpace(parse.tag[j].key)) = key
       IN  Some(Decimal(parse.tag[i].value))
  ELSE None

\* C12: for a field whose schema is an array the enumeration is on the items
\* schema and the array schema has neither enum nor const, while min and max
\* become minItems and maxItems; for any other field the enumeration is on the
\* field schema itself.
C12_EnumOnItems ==
  DynGenerated =>
    IF ValidatedProperty.type = TypeArray
    THEN /\ ValidatedProperty.enum = <<>>
         /\ ValidatedProperty.const = None
         /\ Enumeration # <<>> =>
              (IsSome(ValidatedProperty.items) /\ EnumerationOn(Get(ValidatedProperty.items)))
         /\ IsSome(ItemBound("min")) => ValidatedProperty.minItems = ItemBound("min")
         /\ IsSome(ItemBound("max")) => ValidatedProperty.maxItems = ItemBound("max")
    ELSE EnumerationOn(ValidatedProperty)

---------------------------------------------------------------------------
(* Properties of the struct builder: skipped fields and the order of names *)

\* The fields of the declaration whose type has an unsupported kind.
Unsupported == {i \in 1..Len(dynFields) : Kind(deref(dynFields[i].type)) = "func"}

\* C13: for a field of unsupported kind the registry returns no schema and no
\* error; generation of the struct succeeds, and the field's name is in
\* neither the properties, nor the property-name order, nor the required
\* list, whatever its annotations say.
C13_UnsupportedFieldSkipped ==
  (last.op = "Schema" /\ last.t = "Dyn") =>
    /\ DynGenerated
    /\ \A i \in Unsupported :
         LET fieldSchema == Schema(last.pre, dynFields[i].type, TRUE,
                                   Name("Dyn") \o dynFields[i].structFieldName
                                     \o <<"S", "t", "r", "u", "c", "t">>, MaxDepth)
             name == extractFieldName(dynFields[i])
         IN  /\ fieldSchema.status = "ok"
             /\ fieldSchema.s = None
             /\ name \notin DOMAIN DynProps
             /\ name \notin RangeOf(DynSchema.propertyNames)
             /\ name \notin RangeOf(DynSchema.required)

\* A field of unsupported kind that both annotations call required, skipped
\* beside a field that became a property.
C13_Witness ==
  /\ DynGenerated
  /\ \E i \in Unsupported :
       /\ SchemaSaysRequired(dynFields[i])
       /\ ValidateSaysRequired(dynFields[i])
       /\ ~FieldHidden(dynFields[i])
       /\ extractFieldName(dynFields[i]) \notin DOMAIN DynProps
  /\ DOMAIN DynProps # {}

\* The output names of the fields at the positions of a set, in declaration
\* order.
RECURSIVE NamesFrom(_, _)
NamesFrom(i, positions) ==
  IF i > Len(dynFields) THEN <<>>
  ELSE (IF i \in positions THEN <<extractFieldName(dynFields[i])>> ELSE <<>>)
         \o NamesFrom(i + 1, positions)

\* The fields the annotations make required.
DeterminedRequired ==
  {i \in 1..Len(dynFields) :
     /\ ~FieldHidden(dynFields[i])
     /\ (SchemaSaysRequired(dynFields[i]) \/ ValidateSaysRequired(dynFields[i]))}

\* C14 as stated: the required list holds the names of exactly the fields
\* determined required, once each and in declaration order, all of them keys
\* of the properties; the property-name order follows the declaration.
C14_RequiredOfAllFields ==
  DynGenerated =>
    /\ DynSchema.required = NamesFrom(1, DeterminedRequired)
    /\ RangeOf(DynSchema.required) \subseteq DOMAIN DynProps
    /\ DynSchema.propertyNames = NamesFrom(1, {i \in 1..Len(dynFields) : YieldsProperty(i)})

\* C14, amended: the fields that count are those that yield a property.
C14_RequiredOfProperties ==
  DynGenerated =>
    /\ DynSchema.required = NamesFrom(1, {i \in DeterminedRequired : YieldsProperty(i)})
    /\ RangeOf(DynSchema.required) \subseteq DOMAIN DynProps
    /\ DynSchema.propertyNames = NamesFrom(1, {i \in 1..Len(dynFields) : YieldsProperty(i)})
    /\ DOMAIN DynProps = RangeOf(DynSchema.propertyNames)

\* Two required fields, listed in the order of their declaration.
C14_Witness ==
  /\ DynGenerated
  /\ Len(DynSchema.required) >= 2
  /\ DynSchema.required = NamesFrom(1, DeterminedRequired)
  /\ DynSchema.required[1] # DynSchema.required[2]

---------------------------------------------------------------------------
(* Properties of the annotation parsers *)

\* C15: parsing the same annotation of the same field again yields the same
\* metadata record (or the same error), the order of its lists included,
\* also when several options of the annotation write the same attribute.
C15_ParsersAreFunctions ==
  \A i, j \in 1..Len(parse.results) : parse.results[i] = parse.results[j]

\* The record a parser returns for an annotation it finds nothing in.
ZeroMetadata(parser) ==
  CASE parser = "validate" -> ZeroValidateMetadata
    [] parser = "openapi" -> ZeroOpenAPIMetadata
    [] parser = "openapiStruct" -> ZeroOpenAPIStructMetadata
    [] parser = "default" -> ZeroDefaultMetadata
    [] parser = "dependentRequired" -> [dependents |-> <<>>]

\* C16: every parser accepts the empty annotation, on a field of any kind,
\* and returns the zero record without error (for the default of a string
\* field, the record of the empty string).
C16_EmptyAnnotationAccepted ==
  (parse.tag = <<>> /\ parse.value = <<>>) =>
    \A i \in 1..Len(parse.results) :
      /\ parse.results[i].ok
      /\ \/ parse.results[i].meta = Some(ZeroMetadata(parse.parser))
         \/ /\ parse.parser = "default"
            /\ Kind(pointee(parse.fieldType)) = "string"
            /\ parse.results[i].meta = Some([value |-> Some("")])

---------------------------------------------------------------------------
(* Properties of groups and middleware chains *)

\* The entry of the route that served the last request, and the steps the
\* request passed.
ServedRoute == web.routes[Get(web.served).route]

ServedTrace == Get(web.served).trace

Names(trace) == [i \in 1..Len(trace) |-> trace[i].name]

\* The context that step j of the served request found carries the roles
\* and the permissions of gs.
Carries(j, gs) ==
  /\ IsSome(ServedTrace[j].security)
  /\ RangeOf(gs.Roles) \subseteq RangeOf(Get(ServedTrace[j].security).Roles)
  /\ RangeOf(gs.Permissions) \subseteq RangeOf(Get(ServedTrace[j].security).Permissions)

\* C17: a request to a route that was registered through the group, after
\* security was configured on the group, passes the security-metadata
\* middleware before any middleware of the application, and every such
\* middleware and the handler find a RouteSecurityContext with the roles and
\* permissions of the group in the request context.
C17_GroupSecurityInContext ==
  (IsSome(web.served) /\ ServedRoute.viaGroup /\ IsSome(ServedRoute.groupSecurity)) =>
    \E k \in 1..Len(ServedTrace) :
      /\ ServedTrace[k].kind = "securityMetadata"
      /\ \A j \in 1..Len(ServedTrace) :
           ServedTrace[j].kind \in {"middleware", "handler"} =>
             j > k /\ Carries(j, Get(ServedRoute.groupSecurity))

\* The RouteSecurity of the i-th route of the router after registration.
Effective(i) == web.heap[Get(web.routes[i].route.Security)]

\* The resource and the action of the i-th route are those it declared, and
\* those of the group where it declared none.
InheritsResourceAndAction(i) ==
  LET G == Get(web.routes[i].groupSecurity)
      R == Get(web.routes[i].declared)
  IN  /\ Effective(i).Resource = IF R.Resource = "" THEN G.Resource ELSE R.Resource
      /\ Effective(i).Action = IF R.Action = "" THEN G.Action ELSE R.Action

\* C18: a route registered through the group with roles R of its own, the
\* group having roles G, has the roles of G and of R after the merge; its
\* resource and action are the group's only where it declared none.
C18_RolesAreUnion ==
  \A i \in 1..Len(web.routes) :
    (web.routes[i].viaGroup /\ IsSome(web.routes[i].groupSecurity)
       /\ IsSome(web.routes[i].declared)) =>
      /\ (Len(Get(web.routes[i].declared).Roles) > 0
            /\ Len(Get(web.routes[i].groupSecurity).Roles) > 0) =>
           RangeOf(Effective(i).Roles) =
             RangeOf(Get(web.routes[i].groupSecurity).Roles)
               \cup RangeOf(Get(web.routes[i].declared).Roles)
      /\ InheritsResourceAndAction(i)

---------------------------------------------------------------------------
(* Properties of the response extractor *)

ResponsesAfter == Get(Get(oper.route.Operation).Responses)

\* The responses the operation had before the call
ResponsesGiven ==
  IF IsSome(Get(oper.before).Operation) /\ IsSome(Get(Get(oper.before).Operation).Responses)
  THEN Get(Get(Get(oper.before).Operation).Responses)
  ELSE <<>>

\* A response that had content keeps its media types, and the schemas they had.
KeepsContent ==
  \A s \in DOMAIN ResponsesGiven :
    IsSome(ResponsesGiven[s].Content) =>
      /\ IsSome(ResponsesAfter[s].Content)
      /\ \A ct \in DOMAIN Get(ResponsesGiven[s].Content) :
           /\ ct \in DOMAIN Get(ResponsesAfter[s].Content)
           /\ IsSome(Get(ResponsesGiven[s].Content)[ct].Schema) =>
                Get(ResponsesAfter[s].Content)[ct] = Get(ResponsesGiven[s].Content)[ct]
      /\ DOMAIN Get(ResponsesAfter[s].Content) = DOMAIN Get(ResponsesGiven[s].Content)

\* C20: when ResponseFromType has returned without error, the responses of
\* the operation have an entry for status 500 and one for every status code
\* of route.Errors, and a response that had content before the call keeps it.
C20_ErrorResponsesDefined ==
  oper.status = "ok" =>
    /\ Itoa(StatusInternalServerError) \in DOMAIN ResponsesAfter
    /\ \A i \in 1..Len(oper.route.Errors) : Itoa(oper.route.Errors[i]) \in DOMAIN ResponsesAfter
    /\ KeepsContent

---------------------------------------------------------------------------
(* Properties of conditional requests *)

NoHeaderSupplied ==
  /\ Len(cond.IfMatch) = 0 /\ Len(cond.IfNoneMatch) = 0
  /\ cond.IfModifiedSince = 0 /\ cond.IfUnmodifiedSince = 0

\* A precondition that the request supplied does not hold of the resource.
SomePreconditionFails ==
  \/ \E i \in 1..Len(cond.IfNoneMatch) :
       \/ trimETag(cond.IfNoneMatch[i]) = cond.currentETag
       \/ trimETag(cond.IfNoneMatch[i]) = <<"*">> /\ cond.currentETag # <<>>
  \/ /\ Len(cond.IfMatch) > 0
     /\ \A i \in 1..Len(cond.IfMatch) : trimETag(cond.IfMatch[i]) # cond.currentETag
  \/ cond.IfModifiedSince # 0 /\ cond.currentModified <= cond.IfModifiedSince
  \/ cond.IfUnmodifiedSince # 0 /\ cond.currentModified > cond.IfUnmodifiedSince

\* C21: CheckPreconditions returns nil when no conditional header is
\* supplied; when a supplied precondition fails it returns an error of
\* status 412 for a write and 304 for a read; it returns no other status.
C21_PreconditionStatus ==
  cond.called =>
    /\ NoHeaderSupplied => cond.result = None
    /\ SomePreconditionFails =>
         /\ IsSome(cond.result)
         /\ Get(cond.result).Status =
              IF cond.isWrite THEN StatusPreconditionFailed ELSE StatusNotModified
    /\ IsSome(cond.result) =>
         Get(cond.result).Status \in {StatusPreconditionFailed, StatusNotModified}

\* A read whose If-Match names another ETag than the resource's was refused.
C21_Witness ==
  /\ cond.called /\ ~cond.isWrite
  /\ Len(cond.IfMatch) > 0 /\ Len(cond.IfNoneMatch) = 0
  /\ cond.IfModifiedSince = 0 /\ cond.IfUnmodifiedSince = 0
  /\ IsSome(cond.result)

---------------------------------------------------------------------------
(* Properties of the registry: placeholders, termination, references *)

\* The last call was a Schema call that returned normally.
Returned == last.op = "Schema" /\ last.status = "ok"

\* The type the last call generated, and whether it got a name by this call.
LastType == Resolve(last.pre, last.t, MaxDepth)

NewlyNamed ==
  /\ LastType # "" /\ getsRef(LastType)
  /\ DefaultSchemaNamer(LastType, last.hint) \notin DOMAIN last.pre.schemas

\* The body stored under name n is the one the Builder produces for the type
\* registered under n, and no empty placeholder.
Completed(n) ==
  /\ n \in DOMAIN reg.types /\ reg.types[n] \in reg.seen
  /\ IsSome(reg.schemas[n])
  /\ reg.schemas[n] # Some(ZeroSchema)
  /\ SchemaFromType(reg, reg.types[n], MaxDepth).status = "ok"
  /\ SchemaFromType(reg, reg.types[n], MaxDepth).s = reg.schemas[n]

\* C22: when a Schema call returns normally, a ref-worthy type it found
\* unregistered is in the name table, the type table and the seen set, and
\* every name of the name table maps to the completed body of its type, the
\* names of nested and recursive field types included.
C22_NoPlaceholderRemains ==
  Returned =>
    /\ NewlyNamed =>
         /\ DefaultSchemaNamer(LastType, last.hint) \in DOMAIN reg.schemas
         /\ reg.types[DefaultSchemaNamer(LastType, last.hint)] = LastType
         /\ LastType \in reg.seen
    /\ \A n \in DOMAIN reg.schemas : Completed(n)

\* A call registered a type and, through its fields, a recursive type.
C22_Witness ==
  /\ Returned /\ NewlyNamed
  /\ last.t = "Tree"
  /\ DefaultSchemaNamer("Node", <<>>) \in DOMAIN reg.schemas
  /\ DefaultSchemaNamer("Node", <<>>) \notin DOMAIN last.pre.schemas

\* C23: every Schema call ends: the stack is exhausted for no type, also not
\* for a named slice or map type whose element type is the type itself.
\* No alias is registered, so the type requested is the type built.
C23_SchemaTerminates ==
  (last.op = "Schema" /\ DOMAIN last.pre.aliases = {}) => last.status # "overflow"

---------------------------------------------------------------------------
(* Properties of the field merge and of the shared tables *)

\* Dyn has been generated.
Merged == last.op = "Schema" /\ last.t = "Dyn" /\ last.status = "ok"

\* The annotated field, and its schema in the generated struct schema.
TheField == dynFields[1]

FieldSchema == Get(Get(reg.schemas[DefaultSchemaNamer("Dyn", <<"h">>)]).properties)[<<"x">>]

\* The schema the builder derives from the field's type, before any merge.
TypeDerived ==
  Get(Schema(NewMapRegistry, TheField.type, TRUE, <<"D", "y", "n", "A", "S", "t", "r", "u", "c", "t">>, MaxDepth).s)

BoundFamily(type) ==
  CASE type = TypeString -> <<"minLength", "maxLength">>
    [] type \in {TypeInteger, TypeNumber} -> <<"minimum", "maximum">>
    [] type = TypeArray -> <<"minItems", "maxItems">>
    [] type = TypeObject -> <<"minProperties", "maxProperties">>
    [] OTHER -> <<>>

BoundKeywords ==
  {"minLength", "maxLength", "minimum", "maximum", "minItems", "maxItems",
   "minProperties", "maxProperties"}

\* The value a bound of the annotation takes in a schema of the given kind:
\* the float itself for a number, its integer part for a count.
BoundValue(type, bound) ==
  IF type \in {TypeInteger, TypeNumber} THEN bound
  ELSE IF IsSome(bound) THEN Some(Get(bound) \div 2)
  ELSE None

\* C26: the min and max of a validate annotation are in the two keywords of
\* the family of the field schema's kind and in no other bound keyword; a
\* field schema without a kind has no bound keyword.
C26_BoundsOfOwnFamily ==
  (Merged /\ IsSome(TheField.validate)) =>
    LET vm == Get(TheField.validate)
        family == BoundFamily(FieldSchema.type)
    IN  /\ \A k \in BoundKeywords \ RangeOf(family) : FieldSchema[k] = None
        /\ family # <<>> =>
             /\ IsSome(vm.minimum) =>
                  FieldSchema[family[1]] = BoundValue(FieldSchema.type, vm.minimum)
             /\ IsSome(vm.maximum) =>
                  FieldSchema[family[2]] = BoundValue(FieldSchema.type, vm.maximum)
        /\ FieldSchema.type = "" => FieldSchema.ref # <<>>

\* An array field with min=1.5 and max=5, or a struct field
\* (a reference) with the same annotation.
C26_Witness ==
  /\ Merged
  /\ IsSome(TheField.validate)
  /\ Get(TheField.validate).minimum = Some(3)
  /\ Get(TheField.validate).maximum = Some(10)
  /\ \/ FieldSchema.type = TypeArray /\ FieldSchema.minItems = Some(1)
        /\ FieldSchema.maxItems = Some(5)
     \/ FieldSchema.ref # <<>>

\* The format of the documentation annotation and of the validate annotation
\* of the field ("" when the field has no such annotation).
DocFormat == IF IsSome(TheField.openapi) THEN Get(TheField.openapi).format ELSE ""

ValidateFormat == IF IsSome(TheField.validate) THEN Get(TheField.validate).format ELSE ""

\* The format the field schema holds when the validate annotation is merged:
\* the documentation annotation's when the field has one, else the one
\* derived from the type.
FormatBeforeValidate == IF IsSome(TheField.openapi) THEN DocFormat ELSE TypeDerived.format

C30_TypeDerivedKeywordsKept ==
  Merged =>
    /\ (TypeDerived.format # "" /\ DocFormat = "" /\ ValidateFormat = "") =>
         FieldSchema.format = TypeDerived.format
    /\ (/\ TypeDerived.minimum = Some(minZero)
        /\ ~(IsSome(TheField.validate) /\ IsSome(Get(TheField.validate).minimum))) =>
         FieldSchema.minimum = Some(minZero)

---------------------------------------------------------------------------
(* Properties of the registry: references and failed calls *)

\* The references a schema holds: its own, and those of its properties and
\* of its items.
RefsOf(s) ==
  (IF s.ref # <<>> THEN {s.ref} ELSE {})
    \cup (IF IsSome(s.properties)
          THEN {Get(s.properties)[k].ref : k \in DOMAIN Get(s.properties)} \ {<<>>}
          ELSE {})
    \cup (IF IsSome(s.items) /\ Get(s.items).ref # <<>> THEN {Get(s.items).ref} ELSE {})

HasTarget(ref) == HasPrefix(ref) /\ TrimPrefix(ref) \in DOMAIN Map(reg)

\* C28: every reference in the schema a call returned, and in the schemas of
\* Map(), names a key of Map().
C28_ReferencesHaveTargets ==
  (last.status = "ok" /\ ~halted) =>
    /\ IsSome(last.s) => \A ref \in RefsOf(Get(last.s)) : HasTarget(ref)
    /\ \A n \in DOMAIN Map(reg) :
         IsSome(Map(reg)[n]) => \A ref \in RefsOf(Get(Map(reg)[n])) : HasTarget(ref)

\* C29: a Schema call that panicked has left the registry as it found it,
\* and the same call made again panics again.
C29_PanicLeavesRegistry ==
  (last.op = "Schema" /\ last.status = "panic") =>
    /\ reg = last.pre
    /\ Schema(reg, last.t, TRUE, last.hint, MaxDepth).status = "panic"

---------------------------------------------------------------------------
(* Properties of overlapping calls *)

\* Thread i was handed a schema that is not a reference.
HandedBody(i) ==
  /\ conc.pc[i] = "done"
  /\ IsSome(conc.ret[i])
  /\ Get(conc.ret[i]).ref = <<>>

\* C24: under the single-writer discipline every schema handed out for a
\* ref-worthy type that is not a reference is the completed body stored
\* under the type's name, never the empty placeholder.
C24_SerializedNoPlaceholder ==
  conc.serialized =>
    \A i \in Threads :
      HandedBody(i) =>
        /\ conc.ret[i] # Some(ZeroSchema)
        /\ conc.ret[i] = reg.schemas[NameOf(conc.t[i])]
        /\ conc.ret[i] = SchemaFromType(reg, conc.t[i], MaxDepth).s

\* Two serialized calls for the same type have returned, the second answered
\* from the table with the body.
C24_Witness ==
  /\ conc.serialized
  /\ \A i \in Threads : HandedBody(i)
  /\ conc.t[1] = conc.t[2]

\* Two overlapping calls for the same type: one is handed the placeholder.
OverlapHandsOutPlaceholder ==
  /\ ~conc.serialized
  /\ conc.t[1] = conc.t[2]
  /\ \E i \in Threads : HandedBody(i) /\ conc.ret[i] = Some(ZeroSchema)

====
